---- MODULE Spec2Model ----
(***************************************************************************)
(* rls-guard: the local RLS simulator (rls-simulator.ts) and the test      *)
(* harness that drives it (testing.ts), as state machines.                 *)
(*                                                                         *)
(* A policy expression is a sequence of lexical tokens <<kind, text>>;     *)
(* convertToJavaScript is a rewriting of that sequence, and safeEval is a  *)
(* parser and an evaluator of the JavaScript expression the rewritten      *)
(* sequence spells, since `new Function(...)` hands it to the JavaScript   *)
(* engine as JavaScript and not as SQL.                                    *)
(***************************************************************************)
EXTENDS Integers, Sequences, FiniteSets, TLC

(***************************************************************************)
(* Bound of the model.                                                     *)
(***************************************************************************)
\* The largest number of policies the simulator holds.
MaxPolicies == 2

(***************************************************************************)
(* JavaScript values.  A value is <<type, text>>, numbers written as text. *)
(* Absent marks a key an object does not have; it is not a value.          *)
(***************************************************************************)
Str(s) == <<"str", s>>
Num(s) == <<"num", s>>
Bool(b) == <<"bool", IF b THEN "true" ELSE "false">>
Fn(n) == <<"fn", n>>
Undefined == <<"undef", "">>
Absent == <<"absent", "">>

\* JavaScript's ToBoolean, the `!!` of safeEval.
Truthy(v) == v \notin {Str(""), Num("0"), Bool(FALSE), Undefined}

(***************************************************************************)
(* Tokens.                                                                 *)
(***************************************************************************)
W(x) == <<"w", x>>
P(x) == <<"p", x>>
SQ(x) == <<"s", x>>
DQ(x) == <<"d", x>>

\* The columns mock rows may carry.
Columns == {"id", "user_id", "owner_id"}

\* The names createEvaluationContext binds besides the row's columns.
Builtins == {"current_setting", "current_date", "now", "interval"}

\* Every identifier an expression of the model may spell.
Names == Columns \cup Builtins \cup {"is_admin", "AND", "OR"}

(***************************************************************************)
(* The policy expressions of the model, as written in SQL.                 *)
(***************************************************************************)
CurrentUserCall == <<W("current_setting"), P("("), SQ("app.current_user_id"), P(")")>>

ExprTrue == <<W("true")>>
ExprTrueUpper == <<W("TRUE")>>
ExprFalse == <<W("false")>>
ExprFalseUpper == <<W("FALSE")>>
\* user_id = current_setting('app.current_user_id')
ExprUserIsolation == <<W("user_id"), P("=")>> \o CurrentUserCall
\* owner_id = current_setting('app.current_user_id')::uuid
ExprOwnerCast == <<W("owner_id"), P("=")>> \o CurrentUserCall \o <<P("::uuid")>>
\* (user_id = current_setting('app.current_user_id'))
ExprUserParen == <<P("(")>> \o ExprUserIsolation \o <<P(")")>>
\* owner_id = user_id
ExprOwnerOnly == <<W("owner_id"), P("="), W("user_id")>>
\* is_admin()
ExprUnsupported == <<W("is_admin"), P("("), P(")")>>
\* true AND
ExprMalformed == <<W("true"), W("AND")>>
\* (true) OR (false)
ExprParenOr == <<P("("), W("true"), P(")"), W("OR"), P("("), W("false"), P(")")>>
\* is_admin = id
ExprFlagSet == <<W("is_admin"), P("="), W("id")>>
\* user_id = is_admin
ExprFlagRead == <<W("user_id"), P("="), W("is_admin")>>

Expressions ==
  { ExprTrue, ExprTrueUpper, ExprFalse, ExprFalseUpper, ExprUserIsolation,
    ExprOwnerCast, ExprUserParen, ExprOwnerOnly, ExprUnsupported,
    ExprMalformed, ExprParenOr, ExprFlagSet, ExprFlagRead }

(***************************************************************************)
(* convertToJavaScript.                                                    *)
(***************************************************************************)
\* js.replace(/\btrue\b/gi, 'true'); js.replace(/\bfalse\b/gi, 'false')
LowerBoolean(toks, i) ==
  IF toks[i][2] \in {"true", "TRUE", "True"} THEN <<toks[i][1], "true">>
  ELSE IF toks[i][2] \in {"false", "FALSE", "False"} THEN <<toks[i][1], "false">>
  ELSE toks[i]

LowerBooleans(toks) == [i \in 1..Len(toks) |-> LowerBoolean(toks, i)]

\* js.replace(/current_setting\(['"]([^'"]+)['"]\)/g, 'current_setting("$1")')
RequoteSetting(toks, i) ==
  IF /\ i >= 3
     /\ i < Len(toks)
     /\ toks[i][1] \in {"s", "d"}
     /\ toks[i][2] # ""
     /\ toks[i - 2] = W("current_setting")
     /\ toks[i - 1] = P("(")
     /\ toks[i + 1] = P(")")
  THEN DQ(toks[i][2])
  ELSE toks[i]

RequoteSettings(toks) == [i \in 1..Len(toks) |-> RequoteSetting(toks, i)]

Casts == {P("::uuid"), P("::text"), P("::interval")}

\* js.replace(/::uuid/g, ''), /::text/g, /::interval/g
StripCasts(toks) == SelectSeq(toks, LAMBDA t : t \notin Casts)

\* js.replace(/^\s*\((.*)\)\s*$/, '$1'): the first '(' and the last ')' go,
\* whether or not they match each other.
StripParens(toks) ==
  IF Len(toks) >= 2 /\ toks[1] = P("(") /\ toks[Len(toks)] = P(")")
  THEN SubSeq(toks, 2, Len(toks) - 1)
  ELSE toks

\* The date rewritings (lines 193-202) match only text that spells
\* current_date, now() or interval next to an operator; no expression of
\* Expressions does, and they leave every one of them as it is.
ConvertToJavaScript(expression) ==
  StripParens(StripCasts(RequoteSettings(LowerBooleans(expression))))

(***************************************************************************)
(* The JavaScript parser behind `new Function(...keys, "return !!(" + e +  *)
(* ")")`, for the expressions the tokens can spell.                        *)
(*   Assign  ::= Unary "=" Assign | Unary                                  *)
(*   Unary   ::= "!" Unary | Postfix                                       *)
(*   Postfix ::= Primary { "(" [Assign] ")" }                              *)
(*   Primary ::= true | false | string | identifier | "(" Assign ")"       *)
(* A parse is [ok, ast, next]; a failed one is a SyntaxError.              *)
(***************************************************************************)
NoParse == [ok |-> FALSE, ast |-> <<"err">>, next |-> 0]
Parsed(a, n) == [ok |-> TRUE, ast |-> a, next |-> n]

TokAt(t, i) == IF i >= 1 /\ i <= Len(t) THEN t[i] ELSE <<"eof", "">>

RECURSIVE IsTarget(_)
IsTarget(ast) ==
  \/ ast[1] = "id"
  \/ ast[1] = "par" /\ IsTarget(ast[2])

RECURSIVE TargetName(_)
TargetName(ast) == IF ast[1] = "id" THEN ast[2] ELSE TargetName(ast[2])

RECURSIVE ParseAssign(_, _)
RECURSIVE ParseUnary(_, _)
RECURSIVE ParseCalls(_, _, _)

ParsePrimary(t, i) ==
  LET tok == TokAt(t, i) IN
  IF tok[1] = "w" THEN
    IF tok[2] = "true" THEN Parsed(<<"lit", Bool(TRUE)>>, i + 1)
    ELSE IF tok[2] = "false" THEN Parsed(<<"lit", Bool(FALSE)>>, i + 1)
    ELSE Parsed(<<"id", tok[2]>>, i + 1)
  ELSE IF tok[1] \in {"s", "d"} THEN Parsed(<<"lit", Str(tok[2])>>, i + 1)
  ELSE IF tok = P("(") THEN
    LET r == ParseAssign(t, i + 1) IN
    IF r.ok /\ TokAt(t, r.next) = P(")")
    THEN Parsed(<<"par", r.ast>>, r.next + 1)
    ELSE NoParse
  ELSE NoParse

ParseCalls(t, ast, i) ==
  IF TokAt(t, i) # P("(") THEN Parsed(ast, i)
  ELSE IF TokAt(t, i + 1) = P(")") THEN ParseCalls(t, <<"call", ast, <<>>>>, i + 2)
  ELSE
    LET a == ParseAssign(t, i + 1) IN
    IF a.ok /\ TokAt(t, a.next) = P(")")
    THEN ParseCalls(t, <<"call", ast, <<a.ast>>>>, a.next + 1)
    ELSE NoParse

ParsePostfix(t, i) ==
  LET p == ParsePrimary(t, i) IN
  IF p.ok THEN ParseCalls(t, p.ast, p.next) ELSE NoParse

ParseUnary(t, i) ==
  IF TokAt(t, i) = P("!") THEN
    LET u == ParseUnary(t, i + 1) IN
    IF u.ok THEN Parsed(<<"not", u.ast>>, u.next) ELSE NoParse
  ELSE ParsePostfix(t, i)

ParseAssign(t, i) ==
  LET l == ParseUnary(t, i) IN
  IF ~l.ok THEN NoParse
  ELSE IF TokAt(t, l.next) # P("=") THEN l
  ELSE IF ~IsTarget(l.ast) THEN NoParse
  ELSE
    LET r == ParseAssign(t, l.next + 1) IN
    IF r.ok THEN Parsed(<<"asg", TargetName(l.ast), r.ast>>, r.next) ELSE NoParse

\* The body of the generated function: return !!(<expression>)
FunctionBody(js) == <<P("!"), P("!"), P("(")>> \o js \o <<P(")")>>

ParseBody(js) ==
  LET r == ParseAssign(FunctionBody(js), 1) IN
  IF r.ok /\ r.next = Len(FunctionBody(js)) + 1 THEN r ELSE NoParse

(***************************************************************************)
(* Session contexts.  settings maps a key to a string value, or to Absent  *)
(* when the context's settings do not supply it (a context without         *)
(* settings supplies none).                                                *)
(***************************************************************************)
SettingKeys == {"app.current_user_id", "app.user_role", "app.tenant_id", "tenant_id"}

NoSettings == [k \in SettingKeys |-> Absent]

\* this.context = { user: '', role: 'public' } of the constructor
InitialContext == [user |-> "", role |-> "public", settings |-> NoSettings]

Contexts ==
  { InitialContext,
    [user |-> "u1", role |-> "authenticated_user", settings |-> NoSettings],
    [user |-> "u2", role |-> "admin", settings |-> NoSettings],
    [user |-> "u1", role |-> "authenticated_user",
     settings |-> [NoSettings EXCEPT !["app.current_user_id"] = Str("u2")]] }

\* A current_setting that knows the context's user and role only.
CurrentSettingDefaultsOnly(ctx, key) ==
  IF key = Str("app.current_user_id") THEN Str(ctx.user)
  ELSE IF key = Str("app.user_role") THEN Str(ctx.role)
  ELSE Str("")

\* The emulated current_setting of createEvaluationContext, for a key value.
CurrentSetting(ctx, key) ==
  LET k == key[2]
      tenant == IF Truthy(ctx.settings["tenant_id"]) /\ ctx.settings["tenant_id"] # Absent
                THEN ctx.settings["tenant_id"] ELSE Str("")
      found ==
        IF key[1] # "str" \/ k \notin SettingKeys THEN Undefined
        ELSE IF ctx.settings[k] # Absent THEN ctx.settings[k]
        ELSE IF k = "app.current_user_id" THEN Str(ctx.user)
        ELSE IF k = "app.user_role" THEN Str(ctx.role)
        ELSE IF k = "app.tenant_id" THEN tenant
        ELSE Undefined
  IN IF Truthy(found) THEN found ELSE Str("")

\* The parameters of the generated function: the row's own columns, then
\* the built-in names, which come later in the object literal and win.
CreateEvaluationContext(row) ==
  [n \in Names |->
     IF n = "current_date" THEN <<"date", "">>
     ELSE IF n \in Builtins THEN Fn(n)
     ELSE IF n \in Columns THEN row[n]
     ELSE Absent]

\* No implicit global has been created.
NoGlobals == [n \in Names |-> Absent]

(***************************************************************************)
(* Evaluation of a parsed body in sloppy mode, which is how a function     *)
(* made by `new Function` runs: reading an unbound identifier throws a     *)
(* ReferenceError, assigning to one creates a property of the global       *)
(* object that outlives the call.  A result is [thrown, val, env, g].      *)
(***************************************************************************)
Thrown(env, g) == [thrown |-> TRUE, val |-> Undefined, env |-> env, g |-> g]
Value(v, env, g) == [thrown |-> FALSE, val |-> v, env |-> env, g |-> g]

\* Calling a value with the (zero or one) argument values.
CallValue(f, args, ctx, env, g) ==
  IF f = Fn("current_setting")
  THEN Value(CurrentSetting(ctx, IF Len(args) = 0 THEN Undefined ELSE args[1]), env, g)
  ELSE IF f = Fn("now") THEN Value(<<"date", "">>, env, g)
  ELSE IF f = Fn("interval") /\ Len(args) = 1 /\ args[1][1] = "str" THEN Value(Num("0"), env, g)
  ELSE Thrown(env, g)

RECURSIVE Eval(_, _, _, _)
Eval(ast, ctx, env, g) ==
  IF ast[1] = "lit" THEN Value(ast[2], env, g)
  ELSE IF ast[1] = "par" THEN Eval(ast[2], ctx, env, g)
  ELSE IF ast[1] = "id" THEN
    IF env[ast[2]] # Absent THEN Value(env[ast[2]], env, g)
    ELSE IF g[ast[2]] # Absent THEN Value(g[ast[2]], env, g)
    ELSE Thrown(env, g)
  ELSE IF ast[1] = "not" THEN
    LET r == Eval(ast[2], ctx, env, g) IN
    IF r.thrown THEN r ELSE Value(Bool(~Truthy(r.val)), r.env, r.g)
  ELSE IF ast[1] = "asg" THEN
    LET r == Eval(ast[3], ctx, env, g) IN
    IF r.thrown THEN r
    ELSE IF r.env[ast[2]] # Absent
    THEN Value(r.val, [r.env EXCEPT ![ast[2]] = r.val], r.g)
    ELSE Value(r.val, r.env, [r.g EXCEPT ![ast[2]] = r.val])
  ELSE IF ast[1] = "call" THEN
    LET f == Eval(ast[2], ctx, env, g) IN
    IF f.thrown THEN f
    ELSE IF Len(ast[3]) = 0 THEN CallValue(f.val, <<>>, ctx, f.env, f.g)
    ELSE
      LET a == Eval(ast[3][1], ctx, f.env, f.g) IN
      IF a.thrown THEN a ELSE CallValue(f.val, <<a.val>>, ctx, a.env, a.g)
  ELSE Thrown(env, g)

\* A safeEval whose catch answers true: a predicate that cannot be evaluated
\* lets the row through.
SafeEvalFailOpen(js, ctx, env, g) ==
  LET p == ParseBody(js) IN
  IF ~p.ok THEN [result |-> TRUE, threw |-> TRUE, g |-> g]
  ELSE
    LET r == Eval(p.ast, ctx, env, g) IN
    IF r.thrown THEN [result |-> TRUE, threw |-> TRUE, g |-> r.g]
    ELSE [result |-> Truthy(r.val), threw |-> FALSE, g |-> r.g]

\* safeEval: [result, threw, g].  A SyntaxError of `new Function` and an
\* error thrown by the call are both caught and give false.
SafeEval(js, ctx, env, g) ==
  LET p == ParseBody(js) IN
  IF ~p.ok THEN [result |-> FALSE, threw |-> TRUE, g |-> g]
  ELSE
    LET r == Eval(p.ast, ctx, env, g) IN
    IF r.thrown THEN [result |-> FALSE, threw |-> TRUE, g |-> r.g]
    ELSE [result |-> Truthy(r.val), threw |-> FALSE, g |-> r.g]

\* evaluateExpression
EvaluateExpression(expression, row, ctx, g) ==
  SafeEval(ConvertToJavaScript(expression), ctx, CreateEvaluationContext(row), g)

(***************************************************************************)
(* Mock data, policies and candidate rows of the model.                    *)
(***************************************************************************)
Tables == {"users", "docs"}

Row(id, user, owner) == [id |-> id, user_id |-> user, owner_id |-> owner]

\* {}: the object without a column.
EmptyRow == [c \in Columns |-> Absent]

\* A table the data does not hold reads as [] (this.data[tableName] || []).
MockData ==
  { [users |-> << Row(Num("1"), Str("u1"), Absent), Row(Num("2"), Str("u2"), Absent) >>,
     docs |-> << Row(Num("0"), Str("u1"), Str("u2")), Row(Num("1"), Str("u2"), Str("u1")) >>] }

CandidateRows == { EmptyRow, Row(Num("3"), Str("u2"), Absent) }

Commands == {"SELECT", "INSERT", "UPDATE", "DELETE", "ALL"}

Policy(n, t, c, r, e, perm) ==
  [name |-> n, table |-> t, command |-> c, roles |-> r, expression |-> e, permissive |-> perm]

\* The two policies of the shipped example (part_007, lines 17-32).
UserIsolation == Policy("user_isolation", "users", "SELECT", {"authenticated_user"}, ExprUserIsolation, TRUE)
AdminFullAccess == Policy("admin_full_access", "users", "SELECT", {"admin"}, ExprTrue, TRUE)

\* The policy lists a caller declares (the `policies` of a test definition
\* or of a configuration); a simulator is fed from one of them.
ConfigExample ==
  { UserIsolation,
    AdminFullAccess,
    Policy("must_pass", "users", "SELECT", {"public"}, ExprTrueUpper, FALSE),
    Policy("must_own", "users", "ALL", {"authenticated_user"}, ExprFalse, FALSE) }

ConfigWrites ==
  { Policy("insert_own", "users", "INSERT", {"authenticated_user", "admin"}, ExprUserParen, TRUE),
    Policy("update_owner", "users", "UPDATE", {"authenticated_user"}, ExprOwnerOnly, FALSE),
    Policy("select_none", "users", "SELECT", {"public"}, ExprFalseUpper, TRUE),
    Policy("delete_any", "users", "DELETE", {"public"}, ExprTrue, TRUE),
    Policy("deny_all", "users", "ALL", {"public"}, ExprFalse, TRUE) }

ConfigDocs ==
  { Policy("docs_admin", "docs", "SELECT", {"admin"}, ExprUnsupported, TRUE),
    Policy("docs_broken", "docs", "ALL", {"public"}, ExprMalformed, TRUE),
    Policy("docs_either", "docs", "SELECT", {"authenticated_user"}, ExprParenOr, TRUE),
    Policy("docs_owner", "docs", "INSERT", {"authenticated_user"}, ExprOwnerCast, TRUE) }

\* Two predicates over a name that is no column of docs.
ConfigFlag ==
  { Policy("docs_flagged", "docs", "SELECT", {"public"}, ExprFlagRead, TRUE),
    Policy("docs_flag", "docs", "SELECT", {"public"}, ExprFlagSet, TRUE) }

Configs == { ConfigExample, ConfigWrites, ConfigDocs, ConfigFlag }

(***************************************************************************)
(* The expression parser (parseExpression and generateHelperCall, in       *)
(* introspector.ts).  A text is a sequence of tokens in which every blank  *)
(* is a token of its own; a regular expression of the patterns table is a  *)
(* sequence of elements that the matcher runs with the regex engine's      *)
(* priorities: leftmost start, an optional element taken before it is      *)
(* skipped, the first alternative before the second.                       *)
(***************************************************************************)
Sp == P(" ")

\* String.prototype.toLowerCase and the i flag, on the words of the model.
LowerWord(w) ==
  CASE w \in {"TRUE", "True"} -> "true"
    [] w \in {"FALSE", "False"} -> "false"
    [] w \in {"AND", "And"} -> "and"
    [] w \in {"OR", "Or"} -> "or"
    [] w = "USER_ID" -> "user_id"
    [] w = "CURRENT_SETTING" -> "current_setting"
    [] w = "CURRENT_DATE" -> "current_date"
    [] w = "INTERVAL" -> "interval"
    [] w = "::UUID" -> "::uuid"
    [] OTHER -> w

SameToken(t, u) == t[1] = u[1] /\ LowerWord(t[2]) = LowerWord(u[2])

\* The quoted texts that read as digits, blanks and a unit.
DurationTexts ==
  [c \in {"30 days", "90 days", "24 hours"} |->
     IF c = "30 days" THEN <<"30", "day">>
     ELSE IF c = "90 days" THEN <<"90", "day">>
     ELSE <<"24", "hour">>]

\* An expression given to parseExpression: a string, or null.
Text(toks) == [kind |-> "string", text |-> toks]
Null == [kind |-> "null", text |-> <<>>]

\* The params of a parsed expression; a field not extracted is undefined.
ParamNames == {"column", "role", "days", "hours", "userColumn", "ownerColumn"}
NoParams == [n \in ParamNames |-> Undefined]

\* The elements of a regular expression.
Tok(t) == <<"tok", t>>
Opt(t) == <<"opt", t>>
Blanks == <<"ws", Sp>>
Word(name) == <<"word", name>>
Quoted(name) == <<"quoted", name>>
Duration(unit, name) == <<"dur", unit, name>>
Either(a, b) == <<"alt", a, b>>

NoMatch == [ok |-> FALSE, params |-> NoParams]
Matched(params) == [ok |-> TRUE, params |-> params]
OrElse(first, second) == IF first.ok THEN first ELSE second

RECURSIVE SkipBlanks(_, _)
SkipBlanks(toks, i) ==
  IF i <= Len(toks) /\ toks[i] = Sp THEN SkipBlanks(toks, i + 1) ELSE i

RECURSIVE MatchFrom(_, _, _, _)
MatchFrom(pat, toks, i, params) ==
  IF pat = <<>> THEN Matched(params)
  ELSE IF pat[1][1] = "ws" THEN MatchFrom(Tail(pat), toks, SkipBlanks(toks, i), params)
  ELSE IF pat[1][1] = "alt"
  THEN OrElse(MatchFrom(pat[1][2] \o Tail(pat), toks, i, params),
              MatchFrom(pat[1][3] \o Tail(pat), toks, i, params))
  ELSE IF pat[1][1] = "opt"
  THEN OrElse(IF i <= Len(toks) /\ SameToken(toks[i], pat[1][2])
              THEN MatchFrom(Tail(pat), toks, i + 1, params) ELSE NoMatch,
              MatchFrom(Tail(pat), toks, i, params))
  ELSE IF i > Len(toks) THEN NoMatch
  ELSE IF pat[1][1] = "tok"
  THEN IF SameToken(toks[i], pat[1][2]) THEN MatchFrom(Tail(pat), toks, i + 1, params) ELSE NoMatch
  ELSE IF pat[1][1] = "word"
  THEN IF toks[i][1] = "w"
       THEN MatchFrom(Tail(pat), toks, i + 1, [params EXCEPT ![pat[1][2]] = Str(toks[i][2])])
       ELSE NoMatch
  ELSE IF pat[1][1] = "quoted"
  THEN IF toks[i][1] = "s" /\ toks[i][2] # ""
       THEN MatchFrom(Tail(pat), toks, i + 1, [params EXCEPT ![pat[1][2]] = Str(toks[i][2])])
       ELSE NoMatch
  ELSE IF pat[1][1] = "dur"
  THEN IF /\ toks[i][1] = "s"
          /\ toks[i][2] \in DOMAIN DurationTexts
          /\ DurationTexts[toks[i][2]][2] = pat[1][2]
       THEN MatchFrom(Tail(pat), toks, i + 1,
                      [params EXCEPT ![pat[1][3]] = Num(DurationTexts[toks[i][2]][1])])
       ELSE NoMatch
  ELSE NoMatch

\* expression.match(regex): the match at the leftmost place that has one.
RECURSIVE MatchAfter(_, _, _)
MatchAfter(pat, toks, i) ==
  IF i > Len(toks) + 1 THEN NoMatch
  ELSE OrElse(MatchFrom(pat, toks, i, NoParams), MatchAfter(pat, toks, i + 1))

Match(pat, toks) == MatchAfter(pat, toks, 1)

SettingCall(key) == <<Tok(W("current_setting")), Tok(P("(")), Tok(SQ(key))>>

\* The patterns table with the broad ownerOnly pattern tried first.
PatternsOwnerFirst ==
  << [name |-> "ownerOnly", confidence |-> 60,
      regex |-> <<Word("userColumn"), Blanks, Tok(P("=")), Blanks, Word("ownerColumn")>>],
     [name |-> "currentUserId", confidence |-> 90,
      regex |-> <<Opt(P("(")), Word("column"), Blanks, Tok(P("=")), Blanks, Opt(P("("))>>
                  \o SettingCall("app.current_user_id")
                  \o <<Opt(P("::text")), Tok(P(")")), Opt(P("::uuid")), Opt(P(")"))>>],
     [name |-> "tenantId", confidence |-> 90,
      regex |-> <<Word("column"), Blanks, Tok(P("=")), Blanks>>
                  \o SettingCall("app.tenant_id") \o <<Tok(P(")")), Tok(P("::uuid"))>>],
     [name |-> "roleCheck", confidence |-> 90,
      regex |-> SettingCall("app.user_role")
                  \o <<Tok(P(")")), Blanks, Tok(P("=")), Blanks, Quoted("role")>>],
     [name |-> "recentData", confidence |-> 80,
      regex |-> <<Opt(P("(")), Word("column"), Blanks, Tok(P(">=")), Blanks, Opt(P("(")),
                  Tok(W("current_date")), Blanks, Tok(P("-")), Blanks,
                  Either(<<Duration("day", "days"), Tok(P("::interval"))>>,
                         <<Tok(W("interval")), Blanks, Duration("day", "days")>>),
                  Opt(P(")"))>>],
     [name |-> "timeWindow", confidence |-> 80,
      regex |-> <<Word("column"), Blanks, Tok(P(">=")), Blanks, Tok(W("now")), Tok(P("(")),
                  Tok(P(")")), Blanks, Tok(P("-")), Blanks, Tok(W("interval")), Blanks,
                  Duration("hour", "hours")>>] >>

\* The patterns table, in its order; confidence in hundredths.
Patterns ==
  << [name |-> "currentUserId", confidence |-> 90,
      regex |-> <<Opt(P("(")), Word("column"), Blanks, Tok(P("=")), Blanks, Opt(P("("))>>
                  \o SettingCall("app.current_user_id")
                  \o <<Opt(P("::text")), Tok(P(")")), Opt(P("::uuid")), Opt(P(")"))>>],
     [name |-> "tenantId", confidence |-> 90,
      regex |-> <<Word("column"), Blanks, Tok(P("=")), Blanks>>
                  \o SettingCall("app.tenant_id") \o <<Tok(P(")")), Tok(P("::uuid"))>>],
     [name |-> "roleCheck", confidence |-> 90,
      regex |-> SettingCall("app.user_role")
                  \o <<Tok(P(")")), Blanks, Tok(P("=")), Blanks, Quoted("role")>>],
     [name |-> "recentData", confidence |-> 80,
      regex |-> <<Opt(P("(")), Word("column"), Blanks, Tok(P(">=")), Blanks, Opt(P("(")),
                  Tok(W("current_date")), Blanks, Tok(P("-")), Blanks,
                  Either(<<Duration("day", "days"), Tok(P("::interval"))>>,
                         <<Tok(W("interval")), Blanks, Duration("day", "days")>>),
                  Opt(P(")"))>>],
     [name |-> "timeWindow", confidence |-> 80,
      regex |-> <<Word("column"), Blanks, Tok(P(">=")), Blanks, Tok(W("now")), Tok(P("(")),
                  Tok(P(")")), Blanks, Tok(P("-")), Blanks, Tok(W("interval")), Blanks,
                  Duration("hour", "hours")>>],
     [name |-> "ownerOnly", confidence |-> 60,
      regex |-> <<Word("userColumn"), Blanks, Tok(P("=")), Blanks, Word("ownerColumn")>>] >>

\* A parsed expression.  raw is the expression as given; conditions and
\* reason are there for the helpers that carry them.
ParsedAs(helper, params, raw, confidence, conditions, reason) ==
  [kind |-> "object", helper |-> helper, params |-> params, raw |-> raw,
   confidence |-> confidence, conditions |-> conditions, reason |-> reason]

\* A trim that removes nothing.
TrimNothing(toks) == toks

\* expression.trim()
RECURSIVE TrimLeft(_)
TrimLeft(toks) == IF toks # <<>> /\ toks[1] = Sp THEN TrimLeft(Tail(toks)) ELSE toks

RECURSIVE TrimRight(_)
TrimRight(toks) ==
  IF toks # <<>> /\ toks[Len(toks)] = Sp THEN TrimRight(SubSeq(toks, 1, Len(toks) - 1)) ELSE toks

Trim(toks) == TrimRight(TrimLeft(toks))

\* expression.trim().toLowerCase() === word
IsLiteral(toks, word) ==
  /\ Len(Trim(toks)) = 1
  /\ Trim(toks)[1][1] = "w"
  /\ LowerWord(Trim(toks)[1][2]) = word

\* for (const pattern of patterns): the first pattern that matches, or 0.
FirstPattern(toks) ==
  IF \E k \in DOMAIN Patterns : Match(Patterns[k].regex, toks).ok
  THEN CHOOSE k \in DOMAIN Patterns :
         /\ Match(Patterns[k].regex, toks).ok
         /\ \A j \in 1..(k - 1) : ~Match(Patterns[j].regex, toks).ok
  ELSE 0

\* expression.includes(' AND ') || expression.includes(' OR ')
IncludesConnective(toks) ==
  \E i \in 1..(Len(toks) - 2) :
    toks[i] = Sp /\ toks[i + 1] \in {W("AND"), W("OR")} /\ toks[i + 2] = Sp

\* The place after the separator /\s+(AND|OR)\s+/i that starts at i, or 0.
SeparatorEnd(toks, i) ==
  IF /\ i <= Len(toks)
     /\ toks[i] = Sp
     /\ SkipBlanks(toks, i) < Len(toks)
     /\ toks[SkipBlanks(toks, i)][1] = "w"
     /\ LowerWord(toks[SkipBlanks(toks, i)][2]) \in {"and", "or"}
     /\ toks[SkipBlanks(toks, i) + 1] = Sp
  THEN SkipBlanks(toks, SkipBlanks(toks, i) + 1)
  ELSE 0

\* expression.split(/\s+(AND|OR)\s+/i), the parts at the even places.
RECURSIVE SplitFrom(_, _, _)
SplitFrom(toks, i, part) ==
  IF i > Len(toks) THEN <<part>>
  ELSE IF SeparatorEnd(toks, i) # 0
  THEN <<part>> \o SplitFrom(toks, SeparatorEnd(toks, i), <<>>)
  ELSE SplitFrom(toks, i + 1, Append(part, toks[i]))

SplitConnectives(toks) == SplitFrom(toks, 1, <<>>)

\* A custom result that gives no reason.
CustomWithoutReason(raw, reason) == ParsedAs("custom", NoParams, raw, 0, <<>>, "")

\* The result for an expression no pattern matched and no side explains.
Custom(raw, reason) == ParsedAs("custom", NoParams, raw, 0, <<>>, reason)

\* parseExpression, up to the patterns loop: what a part of a complex
\* expression is parsed as when it holds no connective of its own.
ParseSimple(expression) ==
  IF expression.kind # "string" \/ expression.text = <<>> \/ Trim(expression.text) = <<>>
  THEN ParsedAs("publicAccess", NoParams, expression, 100, <<>>, "")
  ELSE IF IsLiteral(expression.text, "true")
  THEN ParsedAs("publicAccess", NoParams, expression, 100, <<>>, "")
  ELSE IF IsLiteral(expression.text, "false")
  THEN ParsedAs("noAccess", NoParams, expression, 100, <<>>, "")
  ELSE IF FirstPattern(expression.text) # 0
  THEN ParsedAs(Patterns[FirstPattern(expression.text)].name,
                Match(Patterns[FirstPattern(expression.text)].regex, expression.text).params,
                expression, Patterns[FirstPattern(expression.text)].confidence, <<>>, "")
  ELSE Custom(expression, "No matching helper pattern found")

MinConfidence(conditions) ==
  CHOOSE c \in { conditions[k].confidence : k \in DOMAIN conditions } :
    \A k \in DOMAIN conditions : c <= conditions[k].confidence

\* parseComplexExpression.  A part holds no ' AND ' and no ' OR ', so the
\* parseExpression call on it ends in the patterns loop or in custom.
ComplexOf(expression, conditions) ==
  IF Len(conditions) > 0
  THEN ParsedAs("complex", NoParams, expression, (MinConfidence(conditions) * 8) \div 10,
                conditions, "")
  ELSE Custom(expression, "Complex expression could not be parsed")

ParseComplexExpression(expression) ==
  ComplexOf(expression,
            SelectSeq([k \in DOMAIN SplitConnectives(expression.text) |->
                         ParseSimple(Text(SplitConnectives(expression.text)[k]))],
                      LAMBDA parsed : parsed.helper # "custom"))

\* parseExpression
ParseExpression(expression) ==
  IF ParseSimple(expression).helper # "custom" THEN ParseSimple(expression)
  ELSE IF IncludesConnective(expression.text) THEN ParseComplexExpression(expression)
  ELSE ParseSimple(expression)

\* The text of a template literal: its fixed parts and the values put in.
ValueText(v) == IF v = Undefined THEN <<W("undefined")>> ELSE <<W(v[2])>>

RawText(raw) ==
  IF raw.kind = "string" THEN raw.text ELSE <<W(raw.kind)>>

Quote(text) == <<P("\"")>> \o text \o <<P("\"")>>

Returned(text) == [threw |-> FALSE, text |-> text]

\* A TypeError: a property read of null or undefined.
TypeError == [threw |-> TRUE, text |-> <<>>]

CallWith(helper, args) == <<W(helper), P("(")>> \o args \o <<P(")")>>

\* Defaults told by the column alone.
HasDefaultsByColumn(parsed) ==
  IF parsed.helper = "currentUserId" THEN parsed.params.column = Str("user_id")
  ELSE IF parsed.helper = "tenantId" THEN parsed.params.column = Str("tenant_id")
  ELSE IF parsed.helper = "recentData" THEN parsed.params.column = Str("created_at")
  ELSE IF parsed.helper = "ownerOnly" THEN parsed.params.userColumn = Str("user_id")
  ELSE FALSE

\* The conditions under which a helper is rendered without arguments.
HasDefaults(parsed) ==
  IF parsed.helper = "currentUserId" THEN parsed.params.column = Str("user_id")
  ELSE IF parsed.helper = "tenantId" THEN parsed.params.column = Str("tenant_id")
  ELSE IF parsed.helper = "recentData"
  THEN parsed.params.column = Str("created_at") /\ parsed.params.days = Num("90")
  ELSE IF parsed.helper = "ownerOnly"
  THEN parsed.params.userColumn = Str("user_id") /\ parsed.params.ownerColumn = Str("owner_id")
  ELSE FALSE

\* The arguments of a helper rendered with them.
Arguments(parsed) ==
  IF parsed.helper \in {"currentUserId", "tenantId"} THEN Quote(ValueText(parsed.params.column))
  ELSE IF parsed.helper = "roleCheck" THEN Quote(ValueText(parsed.params.role))
  ELSE IF parsed.helper = "recentData"
  THEN Quote(ValueText(parsed.params.column)) \o <<P(","), Sp>> \o ValueText(parsed.params.days)
  ELSE IF parsed.helper = "timeWindow"
  THEN Quote(ValueText(parsed.params.column)) \o <<P(","), Sp>> \o ValueText(parsed.params.hours)
  ELSE Quote(ValueText(parsed.params.userColumn)) \o <<P(","), Sp>>
         \o Quote(ValueText(parsed.params.ownerColumn))

\* generateHelperCall
GenerateHelperCall(parsed) ==
  IF parsed.kind # "object" THEN TypeError
  ELSE IF parsed.helper = "custom" THEN Returned(Quote(RawText(parsed.raw)))
  ELSE IF parsed.helper \in {"publicAccess", "noAccess"} THEN Returned(CallWith(parsed.helper, <<>>))
  ELSE IF parsed.helper \in {"currentUserId", "tenantId", "roleCheck", "recentData", "timeWindow", "ownerOnly"}
  THEN IF HasDefaults(parsed) THEN Returned(CallWith(parsed.helper, <<>>))
       ELSE Returned(CallWith(parsed.helper, Arguments(parsed)))
  ELSE IF parsed.helper = "complex"
  THEN Returned(<<P("/*"), Sp, W("Complex:"), Sp>> \o RawText(parsed.raw) \o <<Sp, P("*/"), Sp>>
                  \o Quote(RawText(parsed.raw)))
  ELSE Returned(Quote(RawText(parsed.raw)))

(***************************************************************************)
(* RLSSimulator.                                                           *)
(***************************************************************************)
\* A filter that does not look at the policy's command.
AppliesAnyCommand(policy, ctx, tableName, command) ==
  /\ policy.table = tableName
  /\ ctx.role \in policy.roles \/ "public" \in policy.roles

\* A filter for which 'public' is a role like any other.
AppliesListedRolesOnly(policy, ctx, tableName, command) ==
  /\ policy.table = tableName
  /\ policy.command = "ALL" \/ policy.command = command
  /\ ctx.role \in policy.roles

\* getApplicablePolicies: the policies kept, in the order of this.policies.
Applies(policy, ctx, tableName, command) ==
  /\ policy.table = tableName
  /\ policy.command = "ALL" \/ policy.command = command
  /\ ctx.role \in policy.roles \/ "public" \in policy.roles

GetApplicablePolicies(pols, ctx, tableName, command) ==
  SelectSeq(pols, LAMBDA policy : Applies(policy, ctx, tableName, command))

\* One evaluateExpression call, as the trace records it.
TraceEntry(policy, row, e) ==
  [policy |-> policy, row |-> row, result |-> e.result, threw |-> e.threw]

\* The outcome of a scan: an evaluation, then the rest of the scan.
Scanned(entry, changed, rest) ==
  [result |-> rest.result, g |-> rest.g, trace |-> <<entry>> \o rest.trace,
   leaked |-> changed \/ rest.leaked]

\* applicablePolicies.some(policy => this.evaluateExpression(...)) for one
\* row, from the i-th policy on: the policies are evaluated in order and
\* the first true ends it.  trace lists the evaluations made; leaked tells
\* whether one of them changed an implicit global.
RECURSIVE SomePolicy(_, _, _, _, _)
SomeAfter(pols, row, ctx, g, i, e) ==
  IF e.result
  THEN [result |-> TRUE, g |-> e.g, trace |-> <<TraceEntry(pols[i], row, e)>>,
        leaked |-> e.g # g]
  ELSE Scanned(TraceEntry(pols[i], row, e), e.g # g, SomePolicy(pols, row, ctx, e.g, i + 1))

SomePolicy(pols, row, ctx, g, i) ==
  IF i > Len(pols)
  THEN [result |-> FALSE, g |-> g, trace |-> <<>>, leaked |-> FALSE]
  ELSE SomeAfter(pols, row, ctx, g, i, EvaluateExpression(pols[i].expression, row, ctx, g))

\* The outcome of a filter: one row's scan, then the rest of the rows.
Filtered(row, here, rest) ==
  [rows |-> (IF here.result THEN <<row>> ELSE <<>>) \o rest.rows,
   g |-> rest.g, trace |-> here.trace \o rest.trace,
   leaked |-> here.leaked \/ rest.leaked]

\* tableData.filter(row => applicablePolicies.some(...)), from the k-th row on.
RECURSIVE FilterRows(_, _, _, _, _)
FilterAfter(rows, pols, ctx, k, here) ==
  Filtered(rows[k], here, FilterRows(rows, pols, ctx, here.g, k + 1))

FilterRows(rows, pols, ctx, g, k) ==
  IF k > Len(rows)
  THEN [rows |-> <<>>, g |-> g, trace |-> <<>>, leaked |-> FALSE]
  ELSE FilterAfter(rows, pols, ctx, k, SomePolicy(pols, rows[k], ctx, g, 1))

\* A select that shows nothing of a table no policy applies to.
SelectRowsDenyByDefault(d, pols, ctx, g, tableName) ==
  LET applicablePolicies == GetApplicablePolicies(pols, ctx, tableName, "SELECT")
  IN IF Len(applicablePolicies) = 0
     THEN [rows |-> <<>>, g |-> g, trace |-> <<>>, leaked |-> FALSE]
     ELSE FilterRows(d[tableName], applicablePolicies, ctx, g, 1)

\* select(tableName)
SelectRows(d, pols, ctx, g, tableName) ==
  LET tableData == d[tableName]
      applicablePolicies == GetApplicablePolicies(pols, ctx, tableName, "SELECT")
  IN IF Len(applicablePolicies) = 0
     THEN [rows |-> tableData, g |-> g, trace |-> <<>>, leaked |-> FALSE]
     ELSE FilterRows(tableData, applicablePolicies, ctx, g, 1)

\* A concatenation that takes the SELECT policies for the UPDATE ones.
WritePoliciesWithSelect(pols, ctx, tableName) ==
  GetApplicablePolicies(pols, ctx, tableName, "INSERT")
    \o GetApplicablePolicies(pols, ctx, tableName, "SELECT")
    \o GetApplicablePolicies(pols, ctx, tableName, "ALL")

\* A concatenation that leaves the UPDATE policies out.
WritePoliciesOfInsert(pols, ctx, tableName) ==
  GetApplicablePolicies(pols, ctx, tableName, "INSERT")
    \o GetApplicablePolicies(pols, ctx, tableName, "ALL")

\* The policies canInsertOrUpdate concatenates.
WritePolicies(pols, ctx, tableName) ==
  GetApplicablePolicies(pols, ctx, tableName, "INSERT")
    \o GetApplicablePolicies(pols, ctx, tableName, "UPDATE")
    \o GetApplicablePolicies(pols, ctx, tableName, "ALL")

\* canInsertOrUpdate(tableName, row)
CanInsertOrUpdate(pols, ctx, g, tableName, row) ==
  LET applicablePolicies == WritePolicies(pols, ctx, tableName) IN
  IF Len(applicablePolicies) = 0
  THEN [result |-> TRUE, g |-> g, trace |-> <<>>, leaked |-> FALSE]
  ELSE SomePolicy(applicablePolicies, row, ctx, g, 1)

VARIABLES
  config,     \* the policies the caller has declared
  data,       \* this.data
  policies,   \* this.policies
  context,    \* this.context
  globals,    \* the implicit globals the evaluated expressions have created
  call,       \* the last call made: its operation, arguments and boolean result
  returned,   \* the rows the last select returned, as the caller holds them
  trace,      \* the evaluateExpression calls the last call made, in order
  leaked,     \* whether one of them changed an implicit global
  test,       \* the run of testPolicies or executeAssertions under way, if any
  parser,     \* the expression given to the parser, what it was parsed as and rendered as
  builder,    \* the ConfigBuilder's policy list and the PolicyBuilder at work, if any
  introspector, \* the pg_policies row given to transformPolicyRow and the policy made of it
  deploy      \* the run of the deploy command under way, if any, and the calls it has made

\* The state of the tools that work without a simulator.
toolVars == <<parser, builder, introspector, deploy>>

vars == <<config, data, policies, context, globals, call, returned, trace, leaked, test, toolVars>>

\* No test run: the simulator is driven directly.
NoTest ==
  [runner |-> "none", tests |-> <<>>, defined |-> 0,
   assertions |-> <<>>, contexts |-> <<>>, index |-> 0, total |-> 0,
   failures |-> <<>>, calls |-> <<>>, pc |-> "idle",
   result |-> [passed |-> FALSE, total |-> 0, failures |-> <<>>]]

\* No expression given to the parser.
NoParser ==
  [pc |-> "idle", input |-> [kind |-> "undefined", text |-> <<>>],
   parsed |-> [kind |-> "undefined", helper |-> "", params |-> NoParams,
               raw |-> [kind |-> "undefined", text |-> <<>>], confidence |-> 0,
               conditions |-> <<>>, reason |-> ""],
   rendered |-> [threw |-> FALSE, text |-> <<>>]]

\* new PolicyBuilder(): this.policy = {}. A field never set is undefined; roles, once set, is
\* an array (the rest parameter of forRoles), which is truthy even when empty.
EmptyPolicy ==
  [name |-> Undefined, table |-> Undefined, command |-> Undefined, expression |-> Undefined,
   roles |-> [set |-> FALSE, list |-> <<>>], permissive |-> Undefined]

\* new ConfigBuilder(): this.config = { database: '', policies: [] }
NoBuilder == [pc |-> "idle", policy |-> EmptyPolicy, policies |-> <<>>, threw |-> FALSE]

\* No row given to the introspector.
NoIntrospector == [pc |-> "idle", row |-> Null, policy |-> Null]

\* No deploy under way: new DatabaseManager(config.database) has client = null.
NoDeploy ==
  [pc |-> "idle", dryRun |-> FALSE, policies |-> <<>>, groups |-> <<>>, table |-> 0,
   policy |-> 0, client |-> "null", ops |-> <<>>, printed |-> 0, failed |-> FALSE, exit |-> 0]

Call(op, t, row, res) == [op |-> op, table |-> t, row |-> row, allowed |-> res]

\* A call that evaluates nothing.
Idle == Call("idle", "", EmptyRow, FALSE)

\* new RLSSimulator(data, policies), policies defaulting to []
Init ==
  /\ config \in Configs
  /\ data \in MockData
  /\ policies = <<>>
  /\ context = InitialContext
  /\ globals = NoGlobals
  /\ call = Idle
  /\ returned = <<>>
  /\ trace = <<>>
  /\ leaked = FALSE
  /\ test = NoTest
  /\ parser = NoParser
  /\ builder = NoBuilder
  /\ introspector = NoIntrospector
  /\ deploy = NoDeploy

\* A setContext that starts the simulator afresh.
SetContextAfresh(ctx) ==
  /\ context' = ctx
  /\ policies' = <<>>
  /\ call' = Idle
  /\ trace' = <<>>
  /\ leaked' = FALSE
  /\ UNCHANGED <<config, data, globals, returned, test, toolVars>>

SetContext(ctx) ==
  /\ context' = ctx
  /\ call' = Idle
  /\ trace' = <<>>
  /\ leaked' = FALSE
  /\ UNCHANGED <<config, data, policies, globals, returned, test, toolVars>>

Select(tableName) ==
  LET r == SelectRows(data, policies, context, globals, tableName) IN
  /\ returned' = r.rows
  /\ globals' = r.g
  /\ trace' = r.trace
  /\ leaked' = r.leaked
  /\ call' = Call("select", tableName, EmptyRow, FALSE)
  /\ UNCHANGED <<config, data, policies, context, test, toolVars>>

CanInsertOrUpdateCall(tableName, row) ==
  LET r == CanInsertOrUpdate(policies, context, globals, tableName, row) IN
  /\ call' = Call("canInsertOrUpdate", tableName, row, r.result)
  /\ globals' = r.g
  /\ trace' = r.trace
  /\ leaked' = r.leaked
  /\ UNCHANGED <<config, data, policies, context, returned, test, toolVars>>

\* addPolicies(policies): this.policies.push(...policies)
AddPolicies(batch) ==
  /\ Len(policies) + Len(batch) <= MaxPolicies
  /\ policies' = policies \o batch
  /\ call' = Idle
  /\ trace' = <<>>
  /\ leaked' = FALSE
  /\ UNCHANGED <<config, data, context, globals, returned, test, toolVars>>

ClearPolicies ==
  /\ policies' = <<>>
  /\ call' = Idle
  /\ trace' = <<>>
  /\ leaked' = FALSE
  /\ UNCHANGED <<config, data, context, globals, returned, test, toolVars>>

Next ==
  \/ \E ctx \in Contexts : SetContext(ctx)
  \/ \E t \in Tables : Select(t)
  \/ \E t \in Tables, row \in CandidateRows : CanInsertOrUpdateCall(t, row)
  \/ \E p \in config : AddPolicies(<<p>>)
  \/ ClearPolicies

Spec == Init /\ [][Next]_vars

(***************************************************************************)
(* The test harness: testPolicies (testing.ts) over a simulator of its     *)
(* own, and executeAssertions (db-test-runner.ts) over a database whose    *)
(* answers are not the program's to decide.                                *)
(***************************************************************************)
\* The largest number of assertions of a test configuration.
MaxAssertions == 2

U1 == [user |-> "u1", role |-> "authenticated_user", settings |-> NoSettings]
U2 == [user |-> "u2", role |-> "admin", settings |-> NoSettings]
U1Override ==
  [user |-> "u1", role |-> "authenticated_user",
   settings |-> [NoSettings EXCEPT !["app.current_user_id"] = Str("u2")]]

\* config.contexts
TestContextLists == { <<U1, U2>>, <<U1Override, U2, U1>> }

\* config.policies
TestPolicyLists ==
  { <<>>,
    <<UserIsolation, AdminFullAccess>>,
    << Policy("insert_own", "users", "INSERT", {"authenticated_user", "admin"}, ExprUserParen, TRUE),
       Policy("deny_all", "users", "ALL", {"public"}, ExprFalse, TRUE) >>,
    << Policy("docs_broken", "docs", "ALL", {"public"}, ExprMalformed, TRUE) >>,
    << Policy("insert_owner", "users", "INSERT", {"public"}, ExprOwnerOnly, TRUE) >>,
    << Policy("insert_none", "users", "INSERT", {"public"}, ExprFalse, TRUE),
       Policy("update_any", "users", "UPDATE", {"authenticated_user"}, ExprTrue, TRUE) >> }

\* A TestAssertion.  expectedRows and row are [given, value] for the optional
\* fields; expectedCount is -1 and shouldPass is "undefined" when not given.
Given(v) == [given |-> TRUE, value |-> v]
NotGiven == [given |-> FALSE, value |-> <<>>]
NoRowGiven == [given |-> FALSE, value |-> EmptyRow]

TestAssertion(c, t, cmd, rows, count, pass, row) ==
  [context |-> c, table |-> t, command |-> cmd, expectedRows |-> rows,
   expectedCount |-> count, shouldPass |-> pass, row |-> row]

TestAssertions ==
  { TestAssertion("u1", "users", "SELECT", Given(<<Row(Num("1"), Str("u1"), Absent)>>), 1, "undefined", NoRowGiven),
    TestAssertion("u2", "users", "SELECT", NotGiven, 2, "undefined", NoRowGiven),
    TestAssertion("ghost", "users", "SELECT", NotGiven, 0, "undefined", NoRowGiven),
    TestAssertion("u1", "docs", "SELECT", NotGiven, -1, "undefined", NoRowGiven),
    TestAssertion("u1", "users", "INSERT", NotGiven, -1, "true", Given(Row(Num("3"), Str("u2"), Absent))),
    TestAssertion("u1", "users", "UPDATE", NotGiven, -1, "false", NoRowGiven),
    TestAssertion("u2", "users", "INSERT", NotGiven, -1, "undefined", Given(EmptyRow)),
    TestAssertion("ghost", "users", "UPDATE", NotGiven, -1, "true", Given(EmptyRow)),
    TestAssertion("u2", "users", "DELETE", NotGiven, -1, "true", NoRowGiven) }

\* The test functions of a TestDefinition: each is expect(context) followed by canSelect(table),
\* canInsert(table, row) or canUpdate(table, row), and by rows, count, noRows, toPass or toFail,
\* whose assertion it returns.
TestFunctions ==
  LET TestFunction(c, t, method, row, rows, count, pass) ==
        [context |-> c, table |-> t, method |-> method, row |-> row, expectedRows |-> rows,
         expectedCount |-> count, shouldPass |-> pass]
  IN  { TestFunction("u1", "users", "canInsert", Row(Num("3"), Str("u2"), Str("u2")), NotGiven, -1, "true"),
        TestFunction("u1", "users", "canUpdate", Row(Num("3"), Str("u2"), Str("u2")), NotGiven, -1, "false"),
        TestFunction("u2", "users", "canInsert", EmptyRow, NotGiven, -1, "true"),
        TestFunction("ghost", "users", "canInsert", EmptyRow, NotGiven, -1, "true"),
        TestFunction("ghost", "users", "canSelect", EmptyRow, NotGiven, 0, "undefined"),
        TestFunction("u2", "users", "canSelect", EmptyRow, NotGiven, 2, "undefined") }

RECURSIVE SeqsUpTo(_, _)
SeqsUpTo(S, n) ==
  IF n = 0 THEN { <<>> }
  ELSE SeqsUpTo(S, n - 1) \cup { Append(q, x) : q \in { r \in SeqsUpTo(S, n - 1) : Len(r) = n - 1 }, x \in S }

\* A find that answers the last context of that user.
FindLastContext(ctxs, user) ==
  IF \E k \in DOMAIN ctxs : ctxs[k].user = user
  THEN CHOOSE k \in DOMAIN ctxs :
         ctxs[k].user = user /\ \A j \in (k + 1)..Len(ctxs) : ctxs[j].user # user
  ELSE 0

\* contexts.find(c => c.user === user): the place of the first, or 0.
FindContext(ctxs, user) ==
  IF \E k \in DOMAIN ctxs : ctxs[k].user = user
  THEN CHOOSE k \in DOMAIN ctxs : ctxs[k].user = user /\ \A j \in 1..(k - 1) : ctxs[j].user # user
  ELSE 0

\* A TestFailure; `of` stands for the identity of the assertion object.
Failure(i, assertion, message) == [of |-> i, assertion |-> assertion, message |-> message]

\* An evaluation a run asked of the simulator.
Evaluation(i, op, t, row, ctx) == [of |-> i, op |-> op, table |-> t, row |-> row, context |-> ctx]

\* const simulator = new RLSSimulator(config.data, config.policies || []);
\* const failures = []; let total = 0;  -- or the entry of executeAssertions
InitTest ==
  /\ data \in MockData
  /\ policies \in TestPolicyLists
  /\ config = { policies[k] : k \in DOMAIN policies }
  /\ context = InitialContext
  /\ globals = NoGlobals
  /\ call = Idle
  /\ returned = <<>>
  /\ trace = <<>>
  /\ leaked = FALSE
  /\ parser = NoParser
  /\ builder = NoBuilder
  /\ introspector = NoIntrospector
  /\ deploy = NoDeploy
  /\ \/ \E runner \in {"simulator", "database"}, ctxs \in TestContextLists,
           as \in SeqsUpTo(TestAssertions, MaxAssertions) :
          /\ runner = "database" => policies = <<>>
          /\ test = [NoTest EXCEPT !.runner = runner, !.assertions = as, !.contexts = ctxs,
                                   !.pc = "running"]
     \* runTests(definition): the simulator is the one of defineTests
     \/ \E ctxs \in TestContextLists, fns \in SeqsUpTo(TestFunctions, MaxAssertions) :
          test = [NoTest EXCEPT !.runner = "simulator", !.tests = fns, !.contexts = ctxs,
                                !.pc = "defining"]

\* The loop's bookkeeping for the assertion at place i: total++, and the
\* failures it pushed.
Counted(i, pushed) ==
  [test EXCEPT !.index = i, !.total = @ + 1, !.failures = @ \o pushed]

\* A SELECT case that takes an assertion without an expectation to expect no rows.
SelectVerdictNoRows(i, assertion, rows) ==
  IF assertion.expectedRows.given
  THEN IF rows = assertion.expectedRows.value THEN <<>>
       ELSE << Failure(i, assertion, "Row mismatch") >>
  ELSE IF Len(rows) = (IF assertion.expectedCount # -1 THEN assertion.expectedCount ELSE 0)
  THEN <<>>
  ELSE << Failure(i, assertion, "Count mismatch") >>

\* case 'SELECT'
SelectVerdict(i, assertion, rows) ==
  IF assertion.expectedRows.given
  THEN IF rows = assertion.expectedRows.value THEN <<>>
       ELSE << Failure(i, assertion, "Row mismatch") >>
  ELSE IF assertion.expectedCount # -1
  THEN IF Len(rows) = assertion.expectedCount THEN <<>>
       ELSE << Failure(i, assertion, "Count mismatch") >>
  ELSE <<>>

\* case 'INSERT', 'UPDATE': passed = actualResult === (assertion.shouldPass ?? true)
WriteVerdict(i, assertion, allowed) ==
  IF allowed = (assertion.shouldPass # "false") THEN <<>>
  ELSE << Failure(i, assertion, "Permission mismatch") >>

AssertSelect(i, assertion, ctx, r) ==
  /\ context' = ctx
  /\ returned' = r.rows
  /\ globals' = r.g
  /\ trace' = r.trace
  /\ leaked' = r.leaked
  /\ call' = Call("select", assertion.table, EmptyRow, FALSE)
  /\ test' = [Counted(i, SelectVerdict(i, assertion, r.rows)) EXCEPT
                !.calls = Append(@, Evaluation(i, "select", assertion.table, EmptyRow, ctx))]
  /\ UNCHANGED <<config, data, policies, toolVars>>

AssertWrite(i, assertion, ctx, row, r) ==
  /\ context' = ctx
  /\ globals' = r.g
  /\ trace' = r.trace
  /\ leaked' = r.leaked
  /\ call' = Call("canInsertOrUpdate", assertion.table, row, r.result)
  /\ test' = [Counted(i, WriteVerdict(i, assertion, r.result)) EXCEPT
                !.calls = Append(@, Evaluation(i, "canInsertOrUpdate", assertion.table, row, ctx))]
  /\ UNCHANGED <<config, data, policies, returned, toolVars>>

\* A command the switch has no case for: the context is set, nothing more.
AssertNothing(i, ctx) ==
  /\ context' = ctx
  /\ call' = Idle
  /\ trace' = <<>>
  /\ leaked' = FALSE
  /\ test' = Counted(i, <<>>)
  /\ UNCHANGED <<config, data, policies, globals, returned, toolVars>>

\* if (!context) { failures.push(...); continue; }
ContextMissing(i, assertion) ==
  /\ test' = Counted(i, << Failure(i, assertion, "Context not found") >>)
  /\ UNCHANGED <<config, data, policies, context, globals, call, returned, trace, leaked, toolVars>>

\* One turn of the loop of testPolicies.
AssertWith(i, assertion, ctx) ==
  IF assertion.command = "SELECT"
  THEN AssertSelect(i, assertion, ctx, SelectRows(data, policies, ctx, globals, assertion.table))
  ELSE IF assertion.command \in {"INSERT", "UPDATE"}
  THEN AssertWrite(i, assertion, ctx, assertion.row.value,
                   CanInsertOrUpdate(policies, ctx, globals, assertion.table, assertion.row.value))
  ELSE AssertNothing(i, ctx)

AssertAt(i, assertion, found) ==
  IF found = 0 THEN ContextMissing(i, assertion)
  ELSE AssertWith(i, assertion, test.contexts[found])

\* A loop that a missing context ends: break for continue.
TestPoliciesStepBreaking ==
  /\ test.runner = "simulator"
  /\ test.pc = "running"
  /\ test.index < Len(test.assertions)
  /\ IF FindContext(test.contexts, test.assertions[test.index + 1].context) = 0
     THEN /\ test' = [Counted(test.index + 1,
                               << Failure(test.index + 1, test.assertions[test.index + 1],
                                          "Context not found") >>)
                         EXCEPT !.index = Len(test.assertions)]
          /\ UNCHANGED <<config, data, policies, context, globals, call, returned, trace, leaked, toolVars>>
     ELSE AssertAt(test.index + 1, test.assertions[test.index + 1],
                   FindContext(test.contexts, test.assertions[test.index + 1].context))

TestPoliciesStep ==
  /\ test.runner = "simulator"
  /\ test.pc = "running"
  /\ test.index < Len(test.assertions)
  /\ AssertAt(test.index + 1, test.assertions[test.index + 1],
              FindContext(test.contexts, test.assertions[test.index + 1].context))

\* return { passed: failures.length === 0, total, failures }
TestPoliciesReturn ==
  /\ test.runner = "simulator"
  /\ test.pc = "running"
  /\ test.index = Len(test.assertions)
  /\ test' = [test EXCEPT !.pc = "done",
                !.result = [passed |-> Len(test.failures) = 0, total |-> test.total,
                            failures |-> test.failures]]
  /\ UNCHANGED <<config, data, policies, context, globals, call, returned, trace, leaked, toolVars>>

\* What the database does with the statements of one assertion: the session
\* statements or the query may fail, and a SELECT answers with rows.
DbAnswers ==
  { [error |-> "session", rows |-> <<>>],
    [error |-> "query", rows |-> <<>>],
    [error |-> "none", rows |-> <<>>],
    [error |-> "none", rows |-> <<Row(Num("1"), Str("u1"), Absent)>>] }

\* executeAssertion and what it calls, for an assertion whose context is
\* found: the failures it pushes, the catch of executeAssertions included.
DbVerdict(i, assertion, answer) ==
  IF answer.error = "session" THEN << Failure(i, assertion, "Error executing assertion") >>
  ELSE IF assertion.command = "SELECT"
  THEN IF answer.error = "query" THEN << Failure(i, assertion, "Error executing assertion") >>
       ELSE SelectVerdict(i, assertion, answer.rows)
  ELSE IF assertion.command \in {"INSERT", "UPDATE"}
  THEN IF ~assertion.row.given THEN << Failure(i, assertion, "Error executing assertion") >>
       ELSE IF answer.error = "none"
       THEN IF assertion.shouldPass = "false"
            THEN << Failure(i, assertion, "Expected to fail but it succeeded") >> ELSE <<>>
       ELSE IF assertion.shouldPass # "false"
            THEN << Failure(i, assertion, "Expected to succeed but it failed") >> ELSE <<>>
  ELSE << Failure(i, assertion, "Error executing assertion") >>

DbAssertAt(i, assertion, found, answer) ==
  test' = [test EXCEPT !.index = i,
             !.failures = @ \o (IF found = 0
                                THEN << Failure(i, assertion, "Context not found") >>
                                ELSE DbVerdict(i, assertion, answer))]

\* One turn of the loop of executeAssertions.
ExecuteAssertionsStep(answer) ==
  /\ test.runner = "database"
  /\ test.pc = "running"
  /\ test.index < Len(test.assertions)
  /\ DbAssertAt(test.index + 1, test.assertions[test.index + 1],
                FindContext(test.contexts, test.assertions[test.index + 1].context), answer)
  /\ UNCHANGED <<config, data, policies, context, globals, call, returned, trace, leaked, toolVars>>

\* return { passed: failures.length === 0, total: assertions.length, failures }
ExecuteAssertionsReturn ==
  /\ test.runner = "database"
  /\ test.pc = "running"
  /\ test.index = Len(test.assertions)
  /\ test' = [test EXCEPT !.pc = "done",
                !.result = [passed |-> Len(test.failures) = 0, total |-> Len(test.assertions),
                            failures |-> test.failures]]
  /\ UNCHANGED <<config, data, policies, context, globals, call, returned, trace, leaked, toolVars>>

\* The TestAssertion a test function returns: the assertionInfo of canSelect, canInsert or
\* canUpdate and what rows, count, toPass or toFail add to it.  No row is among its fields.
AssertionOf(fn) ==
  TestAssertion(fn.context, fn.table,
                IF fn.method = "canSelect" THEN "SELECT"
                ELSE IF fn.method = "canInsert" THEN "INSERT" ELSE "UPDATE",
                fn.expectedRows, fn.expectedCount, fn.shouldPass, NoRowGiven)

\* expect(user).canSelect(table) and the assertion made of it
ExpectSelect(fn, ctx, r) ==
  /\ context' = ctx
  /\ returned' = r.rows
  /\ globals' = r.g
  /\ trace' = r.trace
  /\ leaked' = r.leaked
  /\ call' = Call("select", fn.table, EmptyRow, FALSE)
  /\ test' = [test EXCEPT !.defined = @ + 1, !.assertions = Append(@, AssertionOf(fn))]
  /\ UNCHANGED <<config, data, policies, toolVars>>

\* expect(user).canInsert(table, row) or canUpdate(table, row) and the assertion made of it
ExpectWrite(fn, ctx, r) ==
  /\ context' = ctx
  /\ globals' = r.g
  /\ trace' = r.trace
  /\ leaked' = r.leaked
  /\ call' = Call("canInsertOrUpdate", fn.table, fn.row, r.result)
  /\ test' = [test EXCEPT !.defined = @ + 1, !.assertions = Append(@, AssertionOf(fn))]
  /\ UNCHANGED <<config, data, policies, returned, toolVars>>

\* The test function runs: Expectation finds the context, sets it and asks the simulator, or
\* throws: console.warn, and nothing is pushed.
TestFunctionCall(fn, found) ==
  IF found = 0
  THEN /\ test' = [test EXCEPT !.defined = @ + 1]
       /\ UNCHANGED <<config, data, policies, context, globals, call, returned, trace, leaked,
                      toolVars>>
  ELSE IF fn.method = "canSelect"
  THEN ExpectSelect(fn, test.contexts[found],
                    SelectRows(data, policies, test.contexts[found], globals, fn.table))
  ELSE ExpectWrite(fn, test.contexts[found],
                   CanInsertOrUpdate(policies, test.contexts[found], globals, fn.table, fn.row))

\* One turn of the loop of defineTests: the test function runs and the assertion it returns is
\* pushed; an error thrown is caught and only warned of.
DefineTestsStep ==
  /\ test.runner = "simulator"
  /\ test.pc = "defining"
  /\ test.defined < Len(test.tests)
  /\ TestFunctionCall(test.tests[test.defined + 1],
                      FindContext(test.contexts, test.tests[test.defined + 1].context))

\* runTests: testPolicies(config) on what defineTests returns, with a simulator of its own;
\* the implicit globals are the process's and stay.
RunTestsTestPolicies ==
  /\ test.runner = "simulator"
  /\ test.pc = "defining"
  /\ test.defined = Len(test.tests)
  /\ test' = [test EXCEPT !.pc = "running"]
  /\ context' = InitialContext
  /\ call' = Idle
  /\ returned' = <<>>
  /\ trace' = <<>>
  /\ leaked' = FALSE
  /\ UNCHANGED <<config, data, policies, globals, toolVars>>

NextTest ==
  \/ DefineTestsStep
  \/ RunTestsTestPolicies
  \/ TestPoliciesStep
  \/ TestPoliciesReturn
  \/ \E answer \in DbAnswers : ExecuteAssertionsStep(answer)
  \/ ExecuteAssertionsReturn

SpecTest == InitTest /\ [][NextTest]_vars

(***************************************************************************)
(* The parser at work: an expression is given, parsed and rendered; or a   *)
(* parsed expression is given to generateHelperCall as it is.              *)
(***************************************************************************)
\* The largest number of sides of a connective in an expression given.
MaxSides == 2

Equals(left, right) == left \o <<Sp, P("="), Sp>> \o right
AtLeast(left, right) == left \o <<Sp, P(">="), Sp>> \o right
\* The sides an expression is put together from.
Sides ==
  LET Setting(key) == <<W("current_setting"), P("("), SQ(key), P(")")>>
  IN  { <<W("true")>>,
        <<W("FALSE")>>,
        \* user_id = current_setting('app.current_user_id')::uuid
        Equals(<<W("user_id")>>, Setting("app.current_user_id") \o <<P("::uuid")>>),
        \* (owner_id = (current_setting('app.current_user_id'::text))::uuid)
        <<P("(")>> \o Equals(<<W("owner_id")>>,
                             <<P("("), W("current_setting"), P("("), SQ("app.current_user_id"),
                               P("::text"), P(")"), P(")"), P("::uuid")>>) \o <<P(")")>>,
        \* tenant_id = current_setting('app.tenant_id')::uuid
        Equals(<<W("tenant_id")>>, Setting("app.tenant_id") \o <<P("::uuid")>>),
        \* tenant_id = current_setting('app.tenant_id')
        Equals(<<W("tenant_id")>>, Setting("app.tenant_id")),
        \* current_setting('app.user_role') = 'admin'
        Equals(Setting("app.user_role"), <<SQ("admin")>>),
        \* created_at >= current_date - interval '30 days'
        AtLeast(<<W("created_at")>>,
                <<W("current_date"), Sp, P("-"), Sp, W("interval"), Sp, SQ("30 days")>>),
        \* updated_at >= now() - interval '24 hours'
        AtLeast(<<W("updated_at")>>,
                <<W("now"), P("("), P(")"), Sp, P("-"), Sp, W("interval"), Sp, SQ("24 hours")>>),
        \* user_id = owner_id
        Equals(<<W("user_id")>>, <<W("owner_id")>>),
        \* some_custom_function() = 'value'
        Equals(<<W("some_custom_function"), P("("), P(")")>>, <<SQ("value")>>),
        \* status = 'active'
        Equals(<<W("status")>>, <<SQ("active")>>) }

Connectives == {"AND", "OR", "and"}

RECURSIVE Joined(_)
Joined(n) ==
  IF n = 1 THEN Sides
  ELSE { left \o <<Sp, W(c), Sp>> \o right : left \in Joined(n - 1), c \in Connectives, right \in Sides }

\* The expressions given to parseExpression.
ParserInputs ==
  { Null, Text(<<>>), Text(<<Sp, Sp>>), Text(<<Sp, W("True"), Sp>>), Text(<<W("false"), Sp>>),
    \* USER_ID = CURRENT_SETTING('app.current_user_id')::UUID
    Text(Equals(<<W("USER_ID")>>,
                <<W("CURRENT_SETTING"), P("("), SQ("app.current_user_id"), P(")"), P("::UUID")>>)),
    \* created_at >= CURRENT_DATE - '90 days'::interval
    Text(AtLeast(<<W("created_at")>>,
                 <<W("CURRENT_DATE"), Sp, P("-"), Sp, SQ("90 days"), P("::interval")>>)),
    \* is_admin() AND
    Text(<<W("is_admin"), P("("), P(")"), Sp, W("AND"), Sp>>) }
  \cup { Text(toks) : toks \in UNION { Joined(n) : n \in 1..MaxSides } }

\* The parsed expressions given to generateHelperCall by hand.
ParsedObjects ==
  LET NoRaw == [kind |-> "undefined", text |-> <<>>]
      Params(names, values) ==
        [n \in ParamNames |-> IF \E k \in DOMAIN names : names[k] = n
                              THEN values[CHOOSE k \in DOMAIN names : names[k] = n] ELSE Undefined]
      Owner == Equals(<<W("user_id")>>, <<W("owner_id")>>)
      Status == Equals(<<W("status")>>, <<SQ("active")>>)
  IN  { [NoParser.parsed EXCEPT !.kind = "null"],
      NoParser.parsed,
      ParsedAs("publicAccess", NoParams, NoRaw, 100, <<>>, ""),
      ParsedAs("noAccess", NoParams, NoRaw, 100, <<>>, ""),
      ParsedAs("tenantId", Params(<<"column">>, <<Str("org_id")>>), NoRaw, 90, <<>>, ""),
      ParsedAs("recentData", Params(<<"column", "days">>, <<Str("created_at"), Num("90")>>), NoRaw, 80, <<>>, ""),
      ParsedAs("recentData", Params(<<"column", "days">>, <<Str("updated_at"), Num("90")>>), NoRaw, 80, <<>>, ""),
      ParsedAs("recentData", Params(<<"column", "days">>, <<Str("created_at"), Num("30")>>), NoRaw, 80, <<>>, ""),
      ParsedAs("recentData", Params(<<"column", "days">>, <<Str("created_at"), Str("90")>>), NoRaw, 80, <<>>, ""),
      ParsedAs("timeWindow", Params(<<"column", "hours">>, <<Str("last_seen"), Num("24")>>), NoRaw, 80, <<>>, ""),
      ParsedAs("ownerOnly", Params(<<"userColumn", "ownerColumn">>, <<Str("user_id"), Str("created_by")>>), NoRaw, 60, <<>>, ""),
      ParsedAs("ownerOnly", Params(<<"userColumn", "ownerColumn">>, <<Str("current_user"), Str("owner_id")>>), NoRaw, 60, <<>>, ""),
      ParsedAs("complex", NoParams, Text(Owner \o <<Sp, W("AND"), Sp>> \o Status), 48, <<>>, ""),
      ParsedAs("custom", NoParams, Text(Equals(<<W("some_custom_function"), P("("), P(")")>>, <<SQ("value")>>)), 0, <<>>, ""),
      ParsedAs("unknown", NoParams, Text(Status), 0, <<>>, "") }

SimulatorAtRest ==
  /\ config = {}
  /\ data \in MockData
  /\ policies = <<>>
  /\ context = InitialContext
  /\ globals = NoGlobals
  /\ call = Idle
  /\ returned = <<>>
  /\ trace = <<>>
  /\ leaked = FALSE
  /\ test = NoTest

InitParser ==
  /\ SimulatorAtRest
  /\ builder = NoBuilder
  /\ introspector = NoIntrospector
  /\ deploy = NoDeploy
  /\ \/ \E expression \in ParserInputs :
          parser = [NoParser EXCEPT !.pc = "given", !.input = expression]
     \/ \E parsed \in ParsedObjects :
          parser = [NoParser EXCEPT !.pc = "parsed", !.parsed = parsed]

\* const parsed = parseExpression(policy.expression)
ParseExpressionCall ==
  /\ parser.pc = "given"
  /\ parser' = [parser EXCEPT !.pc = "parsed", !.parsed = ParseExpression(parser.input)]
  /\ UNCHANGED <<config, data, policies, context, globals, call, returned, trace, leaked, test, builder, introspector, deploy>>

\* const helperCall = generateHelperCall(parsed)
GenerateHelperCallCall ==
  /\ parser.pc = "parsed"
  /\ parser' = [parser EXCEPT !.pc = "rendered", !.rendered = GenerateHelperCall(parser.parsed)]
  /\ UNCHANGED <<config, data, policies, context, globals, call, returned, trace, leaked, test, builder, introspector, deploy>>

NextParser ==
  \/ ParseExpressionCall
  \/ GenerateHelperCallCall

SpecParser == InitParser /\ [][NextParser]_vars

(***************************************************************************)
(* The configuration builder at work: addPolicy hands a new PolicyBuilder  *)
(* to the caller's function, which calls its setters; addPolicy then       *)
(* builds the policy and pushes it.                                        *)
(***************************************************************************)
\* The largest number of policies added to one configuration.
MaxBuilt == 2

\* A build that does not look at the roles.
PolicyBuilderBuildAnyRoles(policy) ==
  IF \/ ~Truthy(policy.name)
     \/ ~Truthy(policy.table)
     \/ ~Truthy(policy.command)
     \/ ~Truthy(policy.expression)
  THEN [threw |-> TRUE, policy |-> EmptyPolicy]
  ELSE [threw |-> FALSE, policy |-> policy]

\* PolicyBuilder.build: throws 'Policy is missing required fields', or returns this.policy.
PolicyBuilderBuild(policy) ==
  IF \/ ~Truthy(policy.name)
     \/ ~Truthy(policy.table)
     \/ ~Truthy(policy.command)
     \/ ~Truthy(policy.expression)
     \/ ~policy.roles.set
  THEN [threw |-> TRUE, policy |-> EmptyPolicy]
  ELSE [threw |-> FALSE, policy |-> policy]

InitBuilder ==
  /\ SimulatorAtRest
  /\ parser = NoParser
  /\ builder = NoBuilder
  /\ introspector = NoIntrospector
  /\ deploy = NoDeploy

\* addPolicy(builder): new PolicyBuilder() is handed to the caller's function.
AddPolicyBegin ==
  /\ builder.pc = "idle"
  /\ Len(builder.policies) < MaxBuilt
  /\ builder' = [builder EXCEPT !.pc = "building", !.policy = EmptyPolicy, !.threw = FALSE]
  /\ UNCHANGED <<config, data, policies, context, globals, call, returned, trace, leaked, test, parser, introspector, deploy>>

\* The caller's function calls one of name, onTable, forCommand, withExpression, forRoles,
\* asPermissive, asRestrictive.
PolicyBuilderSet ==
  /\ builder.pc = "building"
  /\ \/ \E name \in {Str(""), Str("p1")} : builder' = [builder EXCEPT !.policy.name = name]
     \/ \E table \in {Str("users")} : builder' = [builder EXCEPT !.policy.table = table]
     \/ \E command \in {Str("SELECT")} : builder' = [builder EXCEPT !.policy.command = command]
     \/ \E expression \in {Str(""), Str("true")} :
          builder' = [builder EXCEPT !.policy.expression = expression]
     \/ \E roles \in {<<>>, <<"public">>} :
          builder' = [builder EXCEPT !.policy.roles = [set |-> TRUE, list |-> roles]]
     \/ builder' = [builder EXCEPT !.policy.permissive = Bool(TRUE)]
     \/ builder' = [builder EXCEPT !.policy.permissive = Bool(FALSE)]
  /\ UNCHANGED <<config, data, policies, context, globals, call, returned, trace, leaked, test, parser, introspector, deploy>>

\* addPolicy, once the caller's function has returned: build() and push, or the throw of build()
\* leaving addPolicy.
AddPolicyEnd ==
  /\ builder.pc = "building"
  /\ builder' =
       [pc |-> "idle",
        policy |-> EmptyPolicy,
        policies |-> IF PolicyBuilderBuild(builder.policy).threw
                     THEN builder.policies
                     ELSE Append(builder.policies, PolicyBuilderBuild(builder.policy).policy),
        threw |-> PolicyBuilderBuild(builder.policy).threw]
  /\ UNCHANGED <<config, data, policies, context, globals, call, returned, trace, leaked, test, parser, introspector, deploy>>

NextBuilder ==
  \/ AddPolicyBegin
  \/ PolicyBuilderSet
  \/ AddPolicyEnd

SpecBuilder == InitBuilder /\ [][NextBuilder]_vars

(***************************************************************************)
(* The introspector at work: a row of pg_policies is given and             *)
(* transformPolicyRow makes a policy of it.  The strings of a row are      *)
(* texts as the parser's are; null is Null.                                *)
(***************************************************************************)
\* The largest number of pieces in a roles string, the hand-written ones apart.
MaxRoleLength == 3

\* normalizeCommand: commandMap[cmd] || cmd
NormalizeCommand(cmd) ==
  IF cmd = Text(<<W("r")>>) THEN Text(<<W("SELECT")>>)
  ELSE IF cmd = Text(<<W("a")>>) THEN Text(<<W("INSERT")>>)
  ELSE IF cmd = Text(<<W("w")>>) THEN Text(<<W("UPDATE")>>)
  ELSE IF cmd = Text(<<W("d")>>) THEN Text(<<W("DELETE")>>)
  ELSE IF cmd = Text(<<P("*")>>) THEN Text(<<W("ALL")>>)
  ELSE cmd

\* A parseRoles that keeps the empty entries.
ParseRolesKeepEmpty(rolesString) ==
  IF rolesString.kind # "string" \/ rolesString.text = <<>> THEN <<>>
  ELSE LET IsNoBrace(t) == t \notin {P("{"), P("}")}
           replaced == SelectSeq(rolesString.text, IsNoBrace)
           RECURSIVE Split(_, _, _)
           Split(toks, i, part) ==
             IF i > Len(toks) THEN <<part>>
             ELSE IF toks[i] = P(",") THEN <<part>> \o Split(toks, i + 1, <<>>)
             ELSE Split(toks, i + 1, Append(part, toks[i]))
           split == Split(replaced, 1, <<>>)
       IN  [k \in DOMAIN split |-> Trim(split[k])]

\* parseRoles: [] for a falsy string; else braces removed, split(','), map(trim),
\* filter(role => role.length > 0).
ParseRoles(rolesString) ==
  IF rolesString.kind # "string" \/ rolesString.text = <<>> THEN <<>>
  ELSE LET IsNoBrace(t) == t \notin {P("{"), P("}")}
           IsNotEmpty(role) == Len(role) > 0
           replaced == SelectSeq(rolesString.text, IsNoBrace)
           RECURSIVE Split(_, _, _)
           Split(toks, i, part) ==
             IF i > Len(toks) THEN <<part>>
             ELSE IF toks[i] = P(",") THEN <<part>> \o Split(toks, i + 1, <<>>)
             ELSE Split(toks, i + 1, Append(part, toks[i]))
           split == Split(replaced, 1, <<>>)
       IN  SelectSeq([k \in DOMAIN split |-> Trim(split[k])], IsNotEmpty)

\* transformPolicyRow. `x || y` is y when x is null or the empty string.
TransformPolicyRow(row) ==
  [name |-> row.policyname,
   table |-> row.tablename,
   schema |-> row.schemaname,
   command |-> NormalizeCommand(row.cmd),
   roles |-> ParseRoles(row.roles),
   permissive |-> (row.permissive = Text(<<W("PERMISSIVE")>>)),
   expression |-> IF row.qual_expression \in {Null, Text(<<>>)}
                  THEN Text(<<W("true")>>) ELSE row.qual_expression,
   withCheck |-> IF row.with_check_expression \in {Null, Text(<<>>)}
                 THEN Text(<<>>) ELSE row.with_check_expression,
   raw |-> [qual |-> row.qual, with_check |-> row.with_check, table_oid |-> row.table_oid]]

\* The rows given: what the query of extractPolicies selects, qual_expression and
\* with_check_expression being qual and with_check under a second name.
PolicyRows ==
  LET Pieces == {P("{"), P("}"), P(","), Sp, W("admin"), W("user")}
      RolesTexts ==
        {Null,
         \* {admin, user}
         Text(<<P("{"), W("admin"), P(","), Sp, W("user"), P("}")>>),
         \* { admin ,, user ,}
         Text(<<P("{"), Sp, W("admin"), Sp, P(","), P(","), Sp, W("user"), Sp, P(","), P("}")>>)}
        \cup {Text(toks) : toks \in UNION {[1..n -> Pieces] : n \in 0..MaxRoleLength}}
      Cmds == {Text(<<W(c)>>) : c \in {"r", "a", "w", "d", "SELECT", "ALL", "UNKNOWN"}}
                \cup {Text(<<P("*")>>)}
      Permissives == {Text(<<W(w)>>) : w \in {"PERMISSIVE", "RESTRICTIVE", "permissive"}}
      Quals == {Null, Text(<<>>), Text(<<W("true")>>), Text(Equals(<<W("user_id")>>, <<W("owner_id")>>))}
  IN  { [policyname |-> Text(<<W("p1")>>), tablename |-> Text(<<W("users")>>),
         schemaname |-> Text(<<W("public")>>), permissive |-> permissive, roles |-> roles,
         cmd |-> cmd, qual |-> qual, with_check |-> check, qual_expression |-> qual,
         with_check_expression |-> check, table_oid |-> Num("16384")] :
        permissive \in Permissives, roles \in RolesTexts, cmd \in Cmds, qual \in Quals,
        check \in {Null, Text(<<W("true")>>)} }

InitIntrospector ==
  /\ SimulatorAtRest
  /\ parser = NoParser
  /\ builder = NoBuilder
  /\ \E row \in PolicyRows : introspector = [NoIntrospector EXCEPT !.pc = "given", !.row = row]
  /\ deploy = NoDeploy

\* result.rows.map(row => this.transformPolicyRow(row)), for one row
TransformPolicyRowCall ==
  /\ introspector.pc = "given"
  /\ introspector' = [introspector EXCEPT !.pc = "transformed",
                                          !.policy = TransformPolicyRow(introspector.row)]
  /\ UNCHANGED <<config, data, policies, context, globals, call, returned, trace, leaked, test,
                 parser, builder, deploy>>

SpecIntrospector == InitIntrospector /\ [][TransformPolicyRowCall]_vars

(***************************************************************************)
(* The deploy command: connect, validateConnection, validateTables unless  *)
(* in a dry run, deployPolicies, and close in the finally block.  Every    *)
(* call of the DatabaseManager is an await that the database may reject.   *)
(***************************************************************************)
\* The most policies a deployed configuration holds.
MaxDeployed == 3

\* A grouping that visits the policies of the configuration from the last to the first.
RECURSIVE PoliciesByTableBackwards(_)
PoliciesByTableBackwards(pols) ==
  IF pols = <<>> THEN [threw |-> FALSE, groups |-> <<>>]
  ELSE LET i == Len(pols)
           shifted == PoliciesByTableBackwards(SubSeq(pols, 1, i - 1)).groups
           at == { k \in DOMAIN shifted : shifted[k].table = pols[i].table }
       IN  [threw |-> FALSE,
            groups |-> IF at = {}
                       THEN <<[table |-> pols[i].table, policies |-> <<i>>]>> \o shifted
                       ELSE [k \in DOMAIN shifted |->
                               IF k \in at
                               THEN [shifted[k] EXCEPT !.policies = <<i>> \o @]
                               ELSE shifted[k]]]

\* const policiesByTable = {}; for (const policy of policies) { if (!policiesByTable[policy.table])
\* policiesByTable[policy.table] = []; policiesByTable[policy.table].push(policy); } and the order
\* of Object.entries: the tables as first met, each with its policies (by their place in the
\* configuration) as met.  policiesByTable is a plain object: for a table named as a property of
\* Object.prototype the lookup finds the inherited value, no array is made and push is not a
\* function, a TypeError.
PoliciesByTable(pols) ==
  LET ObjectPrototypeKeys == {"constructor", "toString", "valueOf", "hasOwnProperty", "__proto__"}
      RECURSIVE GroupFrom(_, _)
      GroupFrom(i, groups) ==
        IF i > Len(pols) THEN [threw |-> FALSE, groups |-> groups]
        ELSE IF pols[i].table \in ObjectPrototypeKeys THEN [threw |-> TRUE, groups |-> groups]
        ELSE LET at == { k \in DOMAIN groups : groups[k].table = pols[i].table }
             IN  GroupFrom(i + 1,
                           IF at = {}
                           THEN Append(groups, [table |-> pols[i].table, policies |-> <<i>>])
                           ELSE [k \in DOMAIN groups |->
                                   IF k \in at
                                   THEN [groups[k] EXCEPT !.policies = Append(@, i)]
                                   ELSE groups[k]])
  IN  GroupFrom(1, <<>>)

\* A call of the DatabaseManager, as the database sees it: the operation, the table and policy
\* it names, the place of the policy in config.policies (0 when it names none) and whether the
\* database accepted it.
DbCall(op, table, name, policy, ok) ==
  [op |-> op, table |-> table, name |-> name, policy |-> policy, ok |-> ok]

\* A rejected await: the error leaves the inner try through its finally block.
Rejected(d) == [d EXCEPT !.failed = TRUE, !.pc = "close"]

\* The command is started on a loaded configuration, with or without --dry-run.
InitDeploy ==
  /\ SimulatorAtRest
  /\ parser = NoParser
  /\ builder = NoBuilder
  /\ introspector = NoIntrospector
  /\ LET DeployedPolicies ==
           { [name |-> n, table |-> t] : n \in {"p1", "p2"}, t \in {"users", "docs", "constructor"} }
     IN  \E dryRun \in BOOLEAN, pols \in SeqsUpTo(DeployedPolicies, MaxDeployed) :
           deploy = [NoDeploy EXCEPT !.pc = "connect", !.dryRun = dryRun, !.policies = pols]

\* await dbManager.connect(): this.client = new Client(...); await this.client.connect()
DeployConnect(ok) ==
  /\ deploy.pc = "connect"
  /\ LET d == [deploy EXCEPT !.client = "client", !.ops = Append(@, DbCall("connect", "", "", 0, ok))]
     IN  deploy' = IF ok THEN [d EXCEPT !.pc = "validateConnection"] ELSE Rejected(d)
  /\ UNCHANGED <<config, data, policies, context, globals, call, returned, trace, leaked, test,
                 parser, builder, introspector>>

\* await dbManager.validateConnection(); the boolean it returns is not looked at
ValidateConnection(ok) ==
  /\ deploy.pc = "validateConnection"
  /\ LET d == [deploy EXCEPT !.ops = Append(@, DbCall("validateConnection", "", "", 0, ok))]
     IN  deploy' = IF ~ok THEN Rejected(d)
                   ELSE [d EXCEPT !.pc = IF deploy.dryRun THEN "deployPolicies" ELSE "validateTables"]
  /\ UNCHANGED <<config, data, policies, context, globals, call, returned, trace, leaked, test,
                 parser, builder, introspector>>

\* validateTables: tableExists for every table of [...new Set(policies.map(p => p.table))]; a
\* missing table and an error are warnings only
ValidateTables(ok) ==
  /\ deploy.pc = "validateTables"
  /\ LET pols == deploy.policies
         firsts == SelectSeq([i \in 1..Len(pols) |-> i],
                             LAMBDA i : \A j \in 1..(i - 1) : pols[j].table # pols[i].table)
         asked == [k \in 1..Len(firsts) |-> DbCall("tableExists", pols[firsts[k]].table, "", 0, ok)]
     IN  deploy' = [deploy EXCEPT !.ops = @ \o asked, !.pc = "deployPolicies"]
  /\ UNCHANGED <<config, data, policies, context, globals, call, returned, trace, leaked, test,
                 parser, builder, introspector>>

\* deployPolicies, up to its loop over Object.entries(policiesByTable)
DeployPolicies ==
  /\ deploy.pc = "deployPolicies"
  /\ LET grouped == PoliciesByTable(deploy.policies)
     IN  deploy' = IF grouped.threw THEN Rejected(deploy)
                   ELSE IF grouped.groups = <<>> THEN [deploy EXCEPT !.pc = "close"]
                   ELSE [deploy EXCEPT !.groups = grouped.groups, !.table = 1,
                                       !.pc = IF deploy.dryRun THEN "dryRun" ELSE "enableRLS"]
  /\ UNCHANGED <<config, data, policies, context, globals, call, returned, trace, leaked, test,
                 parser, builder, introspector>>

\* if (dryRun): the ALTER TABLE line and, for each policy of the table, the DROP POLICY line and
\* the CREATE POLICY statement are printed
DryRunTable ==
  /\ deploy.pc = "dryRun"
  /\ deploy' = [deploy EXCEPT !.printed = @ + 1 + 2 * Len(deploy.groups[deploy.table].policies),
                              !.table = IF deploy.table < Len(deploy.groups) THEN @ + 1 ELSE @,
                              !.pc = IF deploy.table < Len(deploy.groups) THEN "dryRun" ELSE "close"]
  /\ UNCHANGED <<config, data, policies, context, globals, call, returned, trace, leaked, test,
                 parser, builder, introspector>>

\* await dbManager.enableRLS(table)
EnableRLS(ok) ==
  /\ deploy.pc = "enableRLS"
  /\ LET d == [deploy EXCEPT !.ops = Append(@, DbCall("enableRLS", deploy.groups[deploy.table].table,
                                                     "", 0, ok))]
     IN  deploy' = IF ok THEN [d EXCEPT !.policy = 1, !.pc = "dropPolicyIfExists"] ELSE Rejected(d)
  /\ UNCHANGED <<config, data, policies, context, globals, call, returned, trace, leaked, test,
                 parser, builder, introspector>>

\* await dbManager.dropPolicyIfExists(policy.name, table)
DropPolicyIfExists(ok) ==
  /\ deploy.pc = "dropPolicyIfExists"
  /\ LET group == deploy.groups[deploy.table]
         i == group.policies[deploy.policy]
         d == [deploy EXCEPT !.ops = Append(@, DbCall("dropPolicyIfExists", group.table,
                                                     deploy.policies[i].name, i, ok))]
     IN  deploy' = IF ok THEN [d EXCEPT !.pc = "createPolicy"] ELSE Rejected(d)
  /\ UNCHANGED <<config, data, policies, context, globals, call, returned, trace, leaked, test,
                 parser, builder, introspector>>

\* await dbManager.createPolicy(policy), and the turn of the loops after it
CreatePolicy(ok) ==
  /\ deploy.pc = "createPolicy"
  /\ LET group == deploy.groups[deploy.table]
         i == group.policies[deploy.policy]
         d == [deploy EXCEPT !.ops = Append(@, DbCall("createPolicy", deploy.policies[i].table,
                                                     deploy.policies[i].name, i, ok))]
     IN  deploy' = IF ~ok THEN Rejected(d)
                   ELSE IF deploy.policy < Len(group.policies)
                   THEN [d EXCEPT !.policy = @ + 1, !.pc = "dropPolicyIfExists"]
                   ELSE IF deploy.table < Len(deploy.groups)
                   THEN [d EXCEPT !.table = @ + 1, !.policy = 0, !.pc = "enableRLS"]
                   ELSE [d EXCEPT !.pc = "close"]
  /\ UNCHANGED <<config, data, policies, context, globals, call, returned, trace, leaked, test,
                 parser, builder, introspector>>

\* finally { await dbManager.close(); }: if (this.client) { await this.client.end(); this.client =
\* null; } and, after an error, the catch of the action: process.exit(1)
DeployClose ==
  /\ deploy.pc = "close"
  /\ deploy' = [deploy EXCEPT
                  !.ops = IF deploy.client = "null" THEN @ ELSE Append(@, DbCall("end", "", "", 0, TRUE)),
                  !.client = "null",
                  !.exit = IF deploy.failed THEN 1 ELSE 0,
                  !.pc = "done"]
  /\ UNCHANGED <<config, data, policies, context, globals, call, returned, trace, leaked, test,
                 parser, builder, introspector>>

NextDeploy ==
  \/ \E ok \in BOOLEAN : DeployConnect(ok)
  \/ \E ok \in BOOLEAN : ValidateConnection(ok)
  \/ \E ok \in BOOLEAN : ValidateTables(ok)
  \/ DeployPolicies
  \/ DryRunTable
  \/ \E ok \in BOOLEAN : EnableRLS(ok)
  \/ \E ok \in BOOLEAN : DropPolicyIfExists(ok)
  \/ \E ok \in BOOLEAN : CreatePolicy(ok)
  \/ DeployClose

SpecDeploy == InitDeploy /\ [][NextDeploy]_vars

(***************************************************************************)
(* What the claims speak of, stated on the state alone.                    *)
(***************************************************************************)
PolicySet == { policies[i] : i \in DOMAIN policies }

RowsOf(tableName) == { data[tableName][k] : k \in DOMAIN data[tableName] }

\* The context's role is one of the policy's roles, or the policy is public.
RoleMatches(p) == context.role \in p.roles \/ "public" \in p.roles

\* The policies that apply to (tableName, command) under the active context.
ApplicableTo(tableName, command) ==
  { p \in PolicySet : p.table = tableName /\ p.command \in {"ALL", command} /\ RoleMatches(p) }

\* The policies that apply to a write of tableName.
ApplicableToWrite(tableName) ==
  { p \in PolicySet : p.table = tableName /\ p.command \in {"INSERT", "UPDATE", "ALL"} /\ RoleMatches(p) }

\* The policies the last call had to consider.
Considered ==
  IF call.op = "select" THEN ApplicableTo(call.table, "SELECT")
  ELSE IF call.op = "canInsertOrUpdate" THEN ApplicableToWrite(call.table)
  ELSE {}

\* The predicate of p evaluates true for row.  When the last call changed no
\* implicit global, every evaluation it made was made in the globals of the
\* present state, and this is what it found.
Holds(p, row) == EvaluateExpression(p.expression, row, context, globals).result

\* The last call evaluated p for row and found it true.
FoundTrue(p, row) ==
  \E i \in DOMAIN trace : trace[i].policy = p /\ trace[i].row = row /\ trace[i].result

Consulted == { trace[i].policy : i \in DOMAIN trace }

Visible(row) == \E k \in DOMAIN returned : returned[k] = row

\* C1: when a policy applies to (table, SELECT), select returns exactly the
\* rows for which an applicable permissive policy evaluates true; a
\* restrictive policy alone shows no row.
C1_PermissiveOnly ==
  (call.op = "select" /\ ~leaked /\ Considered # {}) =>
    returned = SelectSeq(data[call.table],
                 LAMBDA row : \E p \in Considered : p.permissive /\ Holds(p, row))

\* C2: a row select returns, and a row canInsertOrUpdate admits, passes
\* every applicable restrictive policy.
C2_RestrictiveAnd ==
  /\ (call.op = "select" /\ ~leaked) =>
       \A row \in RowsOf(call.table) :
         Visible(row) => \A p \in Considered : ~p.permissive => Holds(p, row)
  /\ (call.op = "canInsertOrUpdate" /\ ~leaked /\ call.allowed) =>
       \A p \in Considered : ~p.permissive => Holds(p, call.row)

\* C3: under the one applicable policy user_id =
\* current_setting('app.current_user_id'), select returns exactly the rows
\* whose user_id is the context's user.
C3_OwnRowsOnly ==
  (/\ call.op = "select"
   /\ Considered # {}
   /\ \A p \in Considered : p.expression = ExprUserIsolation
   /\ context.settings = NoSettings) =>
    returned = SelectSeq(data[call.table], LAMBDA row : row.user_id = Str(context.user))

\* C4: an evaluation that throws counts as false, and a call all of whose
\* evaluations throw shows no row and admits no row.
C4_FailClosed ==
  /\ \A i \in DOMAIN trace : trace[i].threw => ~trace[i].result
  /\ (/\ Considered # {}
      /\ \A p \in Considered :
           \A row \in (IF call.op = "select" THEN RowsOf(call.table) ELSE {call.row}) :
             EvaluateExpression(p.expression, row, context, globals).threw
      /\ ~leaked) =>
       /\ call.op = "select" => returned = <<>>
       /\ call.op = "canInsertOrUpdate" => ~call.allowed

C4_Witness ==
  /\ call.op = "select"
  /\ data[call.table] # <<>>
  /\ Len(trace) >= 2
  /\ \A i \in DOMAIN trace : trace[i].threw
  /\ returned = <<>>

\* C5: when no policy applies to (table, SELECT) for the active role, select
\* returns the table's rows as they are.
C5_Unenforced ==
  (call.op = "select" /\ Considered = {}) => returned = data[call.table]

C5_Witness ==
  /\ call.op = "select"
  /\ Considered = {}
  /\ Len(policies) = 2
  /\ \E p \in PolicySet : p.table = call.table
  /\ Len(returned) = 2

\* C6: getApplicablePolicies keeps exactly the policies of the table whose
\* command is ALL or the one asked for and whose roles hold the context's
\* role or public, in their order; a call consults no other policy, and
\* consults every one of them for a row it finds no true policy for.
C6_Applicability ==
  /\ \A t \in Tables, c \in Commands :
       LET got == GetApplicablePolicies(policies, context, t, c) IN
       /\ { got[i] : i \in DOMAIN got } = ApplicableTo(t, c)
       /\ Len(got) = Cardinality({ i \in DOMAIN policies : policies[i] \in ApplicableTo(t, c) })
  /\ Consulted \subseteq Considered
  /\ (call.op = "canInsertOrUpdate" /\ ~call.allowed) => Consulted = Considered
  /\ call.op = "select" =>
       \A row \in RowsOf(call.table) :
         ~Visible(row) =>
           \A p \in Considered : \E i \in DOMAIN trace : trace[i].policy = p /\ trace[i].row = row

C6_Witness ==
  /\ call.op = "select"
  /\ Consulted # {}
  /\ Consulted # PolicySet
  /\ \E p \in PolicySet \ Consulted : p.table = call.table

\* C7: canInsertOrUpdate returns true when no INSERT, UPDATE or ALL policy
\* applies, and otherwise exactly when one of them evaluates true for the
\* candidate row; it consults no SELECT or DELETE policy.
C7_WritePolicies ==
  call.op = "canInsertOrUpdate" =>
    /\ call.allowed = (ApplicableToWrite(call.table) = {} \/ \E i \in DOMAIN trace : trace[i].result)
    /\ Consulted \subseteq ApplicableToWrite(call.table)
    /\ ~leaked =>
         call.allowed = (\/ ApplicableToWrite(call.table) = {}
                         \/ \E p \in ApplicableToWrite(call.table) : Holds(p, call.row))

C7_Witness ==
  /\ call.op = "canInsertOrUpdate"
  /\ ~call.allowed
  /\ \E p \in PolicySet : p.table = call.table /\ p.command \in {"SELECT", "DELETE"} /\ RoleMatches(p) /\ Holds(p, call.row)
  /\ Consulted # {}

\* The policies on tableName all read `false` and are granted to public.
DeniedTable(tableName) ==
  /\ \E p \in PolicySet : p.table = tableName
  /\ \A p \in PolicySet :
       p.table = tableName => p.expression \in {ExprFalse, ExprFalseUpper} /\ "public" \in p.roles

\* C8 as stated: with `false` for public on a table, select returns no row
\* and canInsertOrUpdate admits no row, under every context.
C8_DenyAllAsStated ==
  /\ (call.op = "select" /\ DeniedTable(call.table)) => returned = <<>>
  /\ (call.op = "canInsertOrUpdate" /\ DeniedTable(call.table)) => ~call.allowed

\* C8 amended: with `false` for public on a table, select returns no row
\* when one of the policies is for SELECT or ALL, and canInsertOrUpdate
\* admits no row when one of them is for INSERT, UPDATE or ALL.
C8_DenyAll ==
  /\ (/\ call.op = "select"
      /\ DeniedTable(call.table)
      /\ \E p \in PolicySet : p.table = call.table /\ p.command \in {"SELECT", "ALL"}) =>
       returned = <<>>
  /\ (/\ call.op = "canInsertOrUpdate"
      /\ DeniedTable(call.table)
      /\ \E p \in PolicySet : p.table = call.table /\ p.command \in {"INSERT", "UPDATE", "ALL"}) =>
       ~call.allowed

C8_Witness ==
  /\ call.op = "canInsertOrUpdate"
  /\ DeniedTable(call.table)
  /\ context.role = "admin"
  /\ call.row # EmptyRow
  /\ ~call.allowed

\* C10: a step that changes the active context changes neither the data nor
\* the policies nor the rows an earlier select returned.
C10_SetContextFrame ==
  [][context' # context => (data' = data /\ policies' = policies /\ returned' = returned)]_vars

C10_Witness ==
  /\ call = Idle
  /\ context # InitialContext
  /\ policies # <<>>
  /\ Len(returned) = 1

(***************************************************************************)
(* The test harness's claims.                                              *)
(***************************************************************************)
FailuresOf(i) == { k \in DOMAIN test.failures : test.failures[k].of = i }

CallsOf(i) == { k \in DOMAIN test.calls : test.calls[k].of = i }

HasContext(i) == \E k \in DOMAIN test.contexts : test.contexts[k].user = test.assertions[i].context

\* C9: the result's total is the number of assertions, passed tells that
\* failures is empty, and failures is no longer than total; an assertion
\* whose context is missing adds exactly one failure entry, and the
\* assertions after it are run all the same.
C9_TestResult ==
  /\ test.index <= Len(test.assertions)
  /\ \A i \in 1..test.index :
       /\ Cardinality(FailuresOf(i)) <= 1
       /\ ~HasContext(i) =>
            /\ Cardinality(FailuresOf(i)) = 1
            /\ \A k \in FailuresOf(i) : test.failures[k].message = "Context not found"
            /\ CallsOf(i) = {}
       /\ (/\ test.runner = "simulator"
           /\ HasContext(i)
           /\ test.assertions[i].command \in {"SELECT", "INSERT", "UPDATE"}) =>
            Cardinality(CallsOf(i)) = 1
  /\ \A k \in DOMAIN test.failures : test.failures[k].of \in 1..test.index
  /\ test.pc = "done" =>
       /\ test.index = Len(test.assertions)
       /\ test.result.total = Len(test.assertions)
       /\ test.result.passed = (test.result.failures = <<>>)
       /\ test.result.failures = test.failures
       /\ Len(test.result.failures) <= test.result.total

C9_Witness ==
  /\ test.pc = "done"
  /\ test.runner = "simulator"
  /\ Len(test.assertions) = 2
  /\ ~HasContext(1)
  /\ HasContext(2)
  /\ CallsOf(2) # {}
  /\ Len(test.result.failures) = 1

(***************************************************************************)
(* Repeated calls.                                                         *)
(***************************************************************************)
\* C11: a select that follows a select of the same table, with nothing
\* between them, returns the same rows; and a select or canInsertOrUpdate
\* step leaves data, policies and context as they were.
C11_SelectIdempotent ==
  [][/\ (call.op = "select" /\ call'.op = "select" /\ call'.table = call.table) =>
          returned' = returned
     /\ call'.op \in {"select", "canInsertOrUpdate"} =>
          (data' = data /\ policies' = policies /\ context' = context)]_vars

\* What current_setting(key) is to return under the active context.
SettingOf(key) ==
  IF context.settings[key] # Absent THEN context.settings[key]
  ELSE IF key = "app.current_user_id" THEN Str(context.user)
  ELSE Str(context.role)

\* C12: current_setting(key) returns the active context's setting when the
\* settings supply the key, and otherwise the context's user for
\* app.current_user_id and its role for app.user_role; an evaluation made
\* after setContext reads the new context.
C12_CurrentSetting ==
  /\ \A key \in {"app.current_user_id", "app.user_role"} :
       CurrentSetting(context, Str(key)) = SettingOf(key)
  /\ \A i \in DOMAIN trace :
       (trace[i].policy.expression = ExprUserIsolation /\ trace[i].row.user_id # Absent) =>
         /\ ~trace[i].threw
         /\ trace[i].result = (SettingOf("app.current_user_id") # Str(""))

C12_Witness ==
  /\ context.settings["app.current_user_id"] = Str("u2")
  /\ context.user = "u1"
  /\ \E i \in DOMAIN trace : trace[i].policy.expression = ExprUserIsolation /\ trace[i].result

(***************************************************************************)
(* The parser's claims.                                                    *)
(***************************************************************************)
\* An expression was given and parseExpression has returned.
Classified == parser.pc \in {"parsed", "rendered"} /\ parser.input.kind # "undefined"

Idioms == <<"currentUserId", "tenantId", "roleCheck", "recentData", "timeWindow", "ownerOnly">>

\* The regular expression of the idiom of that name matches the text.
IdiomMatches(name, toks) ==
  \E k \in DOMAIN Patterns : Patterns[k].name = name /\ Match(Patterns[k].regex, toks).ok

IdiomConfidence(name) ==
  IF name \in {"currentUserId", "tenantId", "roleCheck"} THEN 90
  ELSE IF name = "ownerOnly" THEN 60 ELSE 80

\* The text is blank, or the literal of that word with blanks around it.
BlankText(toks) == \A k \in DOMAIN toks : toks[k] = Sp

LiteralText(toks, words) ==
  \E k \in DOMAIN toks :
    /\ toks[k] \in { W(w) : w \in words }
    /\ \A j \in DOMAIN toks : j # k => toks[j] = Sp

PlainText(toks) ==
  ~BlankText(toks) /\ ~LiteralText(toks, {"true", "TRUE", "True", "false", "FALSE", "False"})

\* The sides of the AND and OR connectives of a text, written in upper case.
RECURSIVE SidesFrom(_, _, _)
SidesFrom(toks, i, side) ==
  IF i > Len(toks) THEN {side}
  ELSE IF i + 2 <= Len(toks) /\ toks[i] = Sp /\ toks[i + 1] \in {W("AND"), W("OR")} /\ toks[i + 2] = Sp
  THEN {side} \cup SidesFrom(toks, i + 3, <<>>)
  ELSE SidesFrom(toks, i + 1, Append(side, toks[i]))

SidesOf(toks) == SidesFrom(toks, 1, <<>>)

\* The sides of the connectives of a text, written in either case.
RECURSIVE SidesInAnyCaseFrom(_, _, _)
SidesInAnyCaseFrom(toks, i, side) ==
  IF i > Len(toks) THEN {side}
  ELSE IF /\ i + 2 <= Len(toks)
          /\ toks[i] = Sp
          /\ toks[i + 1][1] = "w"
          /\ LowerWord(toks[i + 1][2]) \in {"and", "or"}
          /\ toks[i + 2] = Sp
  THEN {side} \cup SidesInAnyCaseFrom(toks, i + 3, <<>>)
  ELSE SidesInAnyCaseFrom(toks, i + 1, Append(side, toks[i]))

SidesInAnyCase(toks) == SidesInAnyCaseFrom(toks, 1, <<>>)

\* C13 as stated: an expression with an AND or OR of which a side matches
\* an idiom is parsed as complex, with the sides that matched and with
\* eight tenths of their least confidence.
C13_ComplexClassified ==
  (/\ Classified
   /\ parser.input.kind = "string"
   /\ Cardinality(SidesOf(parser.input.text)) > 1
   /\ \E side \in SidesOf(parser.input.text) : \E k \in DOMAIN Idioms : IdiomMatches(Idioms[k], side)) =>
    /\ parser.parsed.helper = "complex"
    /\ parser.parsed.conditions # <<>>
    /\ \A k \in DOMAIN parser.parsed.conditions :
         parser.parsed.confidence <= parser.parsed.conditions[k].confidence
    /\ \E k \in DOMAIN parser.parsed.conditions :
         parser.parsed.confidence * 10 = parser.parsed.conditions[k].confidence * 8

\* C14: the result is the first idiom, in the order currentUserId,
\* tenantId, roleCheck, recentData, timeWindow, ownerOnly, whose pattern
\* matches, with that idiom's confidence; ownerOnly is the result only
\* when none of the five before it matches.
C14_FirstMatchWins ==
  (Classified /\ parser.input.kind = "string" /\ PlainText(parser.input.text)) =>
    \A k \in DOMAIN Idioms :
      (/\ IdiomMatches(Idioms[k], parser.input.text)
       /\ \A j \in 1..(k - 1) : ~IdiomMatches(Idioms[j], parser.input.text)) =>
        /\ parser.parsed.helper = Idioms[k]
        /\ parser.parsed.confidence = IdiomConfidence(Idioms[k])

C14_Witness ==
  /\ Classified
  /\ IdiomMatches("ownerOnly", parser.input.text)
  /\ IdiomMatches("tenantId", parser.input.text)
  /\ parser.parsed.helper = "tenantId"

\* C15: null, the empty and the blank text and the literal true parse as
\* publicAccess and the literal false as noAccess, both with confidence 1,
\* and they render as publicAccess() and noAccess().
C15_Literals ==
  Classified =>
    /\ (\/ parser.input.kind = "null"
        \/ BlankText(parser.input.text)
        \/ LiteralText(parser.input.text, {"true", "TRUE", "True"})) =>
         /\ parser.parsed.helper = "publicAccess"
         /\ parser.parsed.confidence = 100
         /\ parser.pc = "rendered" =>
              parser.rendered = [threw |-> FALSE, text |-> <<W("publicAccess"), P("("), P(")")>>]
    /\ (parser.input.kind = "string" /\ LiteralText(parser.input.text, {"false", "FALSE", "False"})) =>
         /\ parser.parsed.helper = "noAccess"
         /\ parser.parsed.confidence = 100
         /\ parser.pc = "rendered" =>
              parser.rendered = [threw |-> FALSE, text |-> <<W("noAccess"), P("("), P(")")>>]

C15_Witness ==
  /\ parser.pc = "rendered"
  /\ parser.input = Text(<<Sp, W("True"), Sp>>)
  /\ parser.rendered.text = <<W("publicAccess"), P("("), P(")")>>

\* C16: parseExpression returns an object for every string; when no idiom
\* matches the text and no side of a connective of it, in either case, is
\* blank, a literal or matches an idiom, the object is custom with
\* confidence 0, a reason and the text given; the confidence is 0 exactly
\* for custom and lies between 0 and 1.
C16_CustomFallback ==
  (Classified /\ parser.input.kind = "string") =>
    /\ parser.parsed.kind = "object"
    /\ parser.parsed.raw = parser.input
    /\ (/\ PlainText(parser.input.text)
        /\ \A side \in SidesInAnyCase(parser.input.text) :
             /\ PlainText(side)
             /\ \A k \in DOMAIN Idioms : ~IdiomMatches(Idioms[k], side)) =>
         /\ parser.parsed.helper = "custom"
         /\ parser.parsed.reason # ""
    /\ parser.parsed.helper = "custom" => parser.parsed.reason # ""
    /\ (parser.parsed.confidence = 0) = (parser.parsed.helper = "custom")
    /\ parser.parsed.confidence \in 0..100

C16_Witness ==
  /\ Classified
  /\ Cardinality(SidesOf(parser.input.text)) = 2
  /\ parser.parsed.helper = "custom"
  /\ parser.parsed.confidence = 0
  /\ parser.parsed.reason = "Complex expression could not be parsed"

\* The helper's name followed by ().
BareCall(helper) == [threw |-> FALSE, text |-> <<W(helper), P("("), P(")")>>]

\* C17: currentUserId, tenantId, recentData and ownerOnly are rendered
\* without arguments exactly when the params are the defaults, and with
\* all their arguments otherwise; roleCheck and timeWindow always with
\* theirs.
C17_DefaultsOmitted ==
  (parser.pc = "rendered" /\ parser.parsed.kind = "object") =>
    LET params == parser.parsed.params
        helper == parser.parsed.helper
        text == parser.rendered.text
    IN /\ helper = "currentUserId" =>
            (parser.rendered = BareCall(helper)) = (params.column = Str("user_id"))
       /\ helper = "tenantId" =>
            (parser.rendered = BareCall(helper)) = (params.column = Str("tenant_id"))
       /\ helper = "recentData" =>
            /\ (parser.rendered = BareCall(helper)) =
                 (params.column = Str("created_at") /\ params.days = Num("90"))
            /\ parser.rendered # BareCall(helper) =>
                 text = <<W(helper), P("("), P("\""), W(params.column[2]), P("\""), P(","), Sp,
                          W(params.days[2]), P(")")>>
       /\ helper = "ownerOnly" =>
            /\ (parser.rendered = BareCall(helper)) =
                 (params.userColumn = Str("user_id") /\ params.ownerColumn = Str("owner_id"))
            /\ parser.rendered # BareCall(helper) =>
                 text = <<W(helper), P("("), P("\""), W(params.userColumn[2]), P("\""), P(","), Sp,
                          P("\""), W(params.ownerColumn[2]), P("\""), P(")")>>
       /\ helper = "roleCheck" =>
            text = <<W(helper), P("("), P("\""), W(params.role[2]), P("\""), P(")")>>
       /\ helper = "timeWindow" =>
            text = <<W(helper), P("("), P("\""), W(params.column[2]), P("\""), P(","), Sp,
                     W(params.hours[2]), P(")")>>

C17_Witness ==
  /\ parser.pc = "rendered"
  /\ parser.parsed.helper = "recentData"
  /\ parser.parsed.params.column = Str("created_at")
  /\ parser.parsed.params.days = Num("30")
  /\ parser.rendered # BareCall("recentData")

\* C18 as stated: generateHelperCall(null) and generateHelperCall(undefined)
\* return a text that holds a double quote.
C18_NullQuoted ==
  (parser.pc = "rendered" /\ parser.parsed.kind \in {"null", "undefined"}) =>
    /\ ~parser.rendered.threw
    /\ \E k \in DOMAIN parser.rendered.text : parser.rendered.text[k] = P("\"")

(***************************************************************************)
(* C19. A policy with a required field missing is rejected when it is      *)
(* built and never enters the configuration: PolicyBuilder.build throws    *)
(* unless name, table, command, expression and roles are all set; when     *)
(* addPolicy throws, the ConfigBuilder's policy list is what it was        *)
(* before; when it succeeds, the list is the old one with exactly the      *)
(* built policy appended at its end.                                       *)
(***************************************************************************)
FieldMissing(policy) ==
  \/ policy.name = Undefined
  \/ policy.table = Undefined
  \/ policy.command = Undefined
  \/ policy.expression = Undefined
  \/ ~policy.roles.set

C19_MissingFieldRejected ==
  [][/\ (builder.pc = "building" /\ builder'.pc = "idle") =>
          /\ FieldMissing(builder.policy) => builder'.threw
          /\ (/\ ~FieldMissing(builder.policy)
              /\ Str("") \notin {builder.policy.name, builder.policy.table,
                                  builder.policy.command, builder.policy.expression}) =>
               ~builder'.threw
          /\ builder'.threw => builder'.policies = builder.policies
          /\ ~builder'.threw => builder'.policies = Append(builder.policies, builder.policy)
     /\ builder'.pc = "building" => builder'.policies = builder.policies
     /\ \A i \in DOMAIN builder'.policies : ~FieldMissing(builder'.policies[i])]_vars

\* One addPolicy has succeeded and a later one has thrown.
C19_Witness ==
  /\ builder.pc = "idle"
  /\ builder.threw
  /\ Len(builder.policies) = 1

(***************************************************************************)
(* C20. transformPolicyRow makes of a pg_policies row a policy whose       *)
(* command is SELECT, INSERT, UPDATE, DELETE, ALL for the cmd r, a, w, d,  *)
(* * and the cmd itself for any other value; whose roles are read off the  *)
(* array literal piece by piece: braces are skipped, a comma ends an       *)
(* entry, an entry is trimmed and dropped when empty (null and '{}' give   *)
(* no roles); whose permissive flag is true exactly when the row's         *)
(* permissive is 'PERMISSIVE'; and whose expression is the row's qual, or  *)
(* 'true' when there is no qual.                                           *)
(***************************************************************************)
\* The entry read so far, closed: nothing when blank, else without the blanks around it.
ClosedEntry(entry) ==
  IF \A k \in DOMAIN entry : entry[k] = Sp THEN <<>>
  ELSE LET first == CHOOSE k \in DOMAIN entry : entry[k] # Sp /\ \A j \in 1..(k - 1) : entry[j] = Sp
           last == CHOOSE k \in DOMAIN entry : entry[k] # Sp /\ \A j \in (k + 1)..Len(entry) : entry[j] = Sp
       IN  <<SubSeq(entry, first, last)>>

RECURSIVE RolesRead(_, _, _, _)
RolesRead(toks, i, entry, roles) ==
  IF i > Len(toks) THEN roles \o ClosedEntry(entry)
  ELSE IF toks[i] \in {P("{"), P("}")} THEN RolesRead(toks, i + 1, entry, roles)
  ELSE IF toks[i] = P(",") THEN RolesRead(toks, i + 1, <<>>, roles \o ClosedEntry(entry))
  ELSE RolesRead(toks, i + 1, Append(entry, toks[i]), roles)

CommandNames ==
  [r |-> "SELECT", a |-> "INSERT", w |-> "UPDATE", d |-> "DELETE"]

C20_TransformPolicyRow ==
  introspector.pc = "transformed" =>
    LET row == introspector.row
        policy == introspector.policy
    IN  /\ \A c \in DOMAIN CommandNames :
             row.cmd = Text(<<W(c)>>) => policy.command = Text(<<W(CommandNames[c])>>)
        /\ row.cmd = Text(<<P("*")>>) => policy.command = Text(<<W("ALL")>>)
        /\ (/\ row.cmd # Text(<<P("*")>>)
            /\ \A c \in DOMAIN CommandNames : row.cmd # Text(<<W(c)>>)) =>
             policy.command = row.cmd
        /\ policy.roles = IF row.roles = Null THEN <<>>
                          ELSE RolesRead(row.roles.text, 1, <<>>, <<>>)
        /\ row.roles = Text(<<P("{"), P("}")>>) => policy.roles = <<>>
        /\ policy.permissive = (row.permissive.text = <<W("PERMISSIVE")>>)
        /\ policy.expression = IF row.qual \in {Null, Text(<<>>)} THEN Text(<<W("true")>>)
                               ELSE row.qual

\* A row with a short command, an array literal of two roles written with blanks and empty
\* entries, and no qual has been transformed.
C20_Witness ==
  /\ introspector.pc = "transformed"
  /\ introspector.row.cmd = Text(<<W("w")>>)
  /\ introspector.row.qual = Null
  /\ introspector.row.permissive = Text(<<W("RESTRICTIVE")>>)
  /\ Len(introspector.row.roles.text) = 11
  /\ introspector.policy.roles = << <<W("admin")>>, <<W("user")>> >>
  /\ introspector.policy.command = Text(<<W("UPDATE")>>)

(***************************************************************************)
(* C22 as stated: the step that strips the parentheses leaves a predicate  *)
(* whose first '(' and last ')' do not match each other with balanced      *)
(* parentheses, so every predicate evaluated that was balanced as written  *)
(* is balanced as JavaScript.                                              *)
(***************************************************************************)
\* The parentheses still open after the i-th token, or -1 once one closed that was not open.
RECURSIVE OpenAfter(_, _)
OpenAfter(toks, i) ==
  IF i = 0 THEN 0
  ELSE IF OpenAfter(toks, i - 1) < 0 THEN -1
  ELSE IF toks[i] = P("(") THEN OpenAfter(toks, i - 1) + 1
  ELSE IF toks[i] = P(")") THEN OpenAfter(toks, i - 1) - 1
  ELSE OpenAfter(toks, i - 1)

Balanced(toks) == OpenAfter(toks, Len(toks)) = 0

C22_ParensKeptBalanced ==
  \A k \in DOMAIN trace :
    Balanced(trace[k].policy.expression) =>
      Balanced(ConvertToJavaScript(trace[k].policy.expression))

(***************************************************************************)
(* C23 as stated: parseExpression answers ownerOnly only for a bare        *)
(* equality of two columns, the blanks apart: never for a text whose       *)
(* right-hand side is a call or a literal, or that goes on after the       *)
(* equality.                                                               *)
(***************************************************************************)
\* The pieces of a text that are not blanks.
NoBlanks(toks) == SelectSeq(toks, LAMBDA t : t # Sp)

BareEquality(toks) ==
  /\ Len(NoBlanks(toks)) = 3
  /\ NoBlanks(toks)[1][1] = "w"
  /\ NoBlanks(toks)[2] = P("=")
  /\ NoBlanks(toks)[3][1] = "w"

C23_OwnerOnlyBare ==
  (Classified /\ parser.input.kind = "string" /\ parser.parsed.helper = "ownerOnly") =>
    BareEquality(parser.input.text)

(***************************************************************************)
(* C24 as stated: a text that matches no idiom as a whole and holds an     *)
(* and/or between blanks, in whatever case, is parsed as the same text     *)
(* with the connectives in upper case is: same helper, same conditions,    *)
(* same confidence.                                                        *)
(***************************************************************************)
\* The text with every and/or that stands between blanks written in upper case.
UpperConnectives(toks) ==
  [k \in DOMAIN toks |->
     IF /\ 1 < k
        /\ k < Len(toks)
        /\ toks[k - 1] = Sp
        /\ toks[k + 1] = Sp
        /\ toks[k][1] = "w"
        /\ LowerWord(toks[k][2]) \in {"and", "or"}
     THEN IF LowerWord(toks[k][2]) = "and" THEN W("AND") ELSE W("OR")
     ELSE toks[k]]

C24_ConnectiveAnyCase ==
  (/\ Classified
   /\ parser.input.kind = "string"
   /\ \A k \in DOMAIN Idioms : ~IdiomMatches(Idioms[k], parser.input.text)) =>
    /\ parser.parsed.helper = ParseExpression(Text(UpperConnectives(parser.input.text))).helper
    /\ parser.parsed.conditions =
         ParseExpression(Text(UpperConnectives(parser.input.text))).conditions
    /\ parser.parsed.confidence =
         ParseExpression(Text(UpperConnectives(parser.input.text))).confidence

(***************************************************************************)
(* C26. During testPolicies every evaluation is made under the asserting   *)
(* user's own context: when the loop takes an assertion whose context is   *)
(* among those supplied, the simulator's context becomes the first         *)
(* supplied context of that user, whatever it was before, and the select   *)
(* or canInsertOrUpdate the assertion asks for is made under it; when the  *)
(* context is missing, nothing is evaluated and the simulator's context    *)
(* stays as it was.                                                        *)
(***************************************************************************)
\* The places of the supplied contexts of the user the i-th assertion names.
ContextsOf(i) == { k \in DOMAIN test.contexts : test.contexts[k].user = test.assertions[i].context }

FirstOf(S) == CHOOSE k \in S : \A j \in S : k <= j

C26_OwnContext ==
  [][(test.runner = "simulator" /\ test'.index = test.index + 1) =>
       IF ContextsOf(test'.index) = {}
       THEN context' = context /\ test'.calls = test.calls
       ELSE /\ context' = test.contexts[FirstOf(ContextsOf(test'.index))]
            /\ test.assertions[test'.index].command \in {"SELECT", "INSERT", "UPDATE"} =>
                 /\ Len(test'.calls) = Len(test.calls) + 1
                 /\ test'.calls[Len(test'.calls)].of = test'.index
                 /\ test'.calls[Len(test'.calls)].context = context'
                 /\ call'.op \in {"select", "canInsertOrUpdate"}]_vars

\* Two assertions of different users have been evaluated, the second under the first of two
\* supplied contexts of its user.
C26_Witness ==
  /\ test.runner = "simulator"
  /\ test.index = 2
  /\ test.contexts = <<U1Override, U2, U1>>
  /\ test.assertions[1].context = "u2"
  /\ test.assertions[2].context = "u1"
  /\ Len(test.calls) = 2
  /\ context = U1Override

(***************************************************************************)
(* C29. An assertion that states nothing to check passes: in testPolicies  *)
(* an assertion whose command is DELETE, or whose command is SELECT and    *)
(* that gives neither expectedRows nor expectedCount, is counted in total  *)
(* and has no failure entry, whatever the policies, the data and the       *)
(* context are, provided its context is among those supplied.              *)
(***************************************************************************)
Vacuous(assertion) ==
  \/ assertion.command = "DELETE"
  \/ /\ assertion.command = "SELECT"
     /\ ~assertion.expectedRows.given
     /\ assertion.expectedCount = -1

C29_VacuousPass ==
  test.runner = "simulator" =>
    /\ test.total = test.index
    /\ \A i \in 1..test.index :
         (Vacuous(test.assertions[i]) /\ ContextsOf(i) # {}) =>
           \A k \in DOMAIN test.failures : test.failures[k].of # i

\* A run of a DELETE assertion and of a SELECT without expectation on a table of which the
\* policies show the user nothing has ended and passed.
C29_Witness ==
  /\ test.runner = "simulator"
  /\ test.pc = "done"
  /\ Len(test.assertions) = 2
  /\ test.assertions[1].command = "DELETE"
  /\ test.assertions[2].command = "SELECT"
  /\ Vacuous(test.assertions[2])
  /\ policies # <<>>
  /\ returned = <<>>
  /\ test.result.passed
  /\ test.result.total = 2

(***************************************************************************)
(* C30. The simulator does not tell INSERT from UPDATE: the admissibility  *)
(* testPolicies computes for an INSERT or an UPDATE assertion is that of   *)
(* canInsertOrUpdate over the applicable INSERT, UPDATE and ALL policies   *)
(* alike, whichever of the two commands the assertion names; an            *)
(* applicable UPDATE policy found true admits an insert, an applicable     *)
(* INSERT policy found true admits an update, and a refusal has consulted  *)
(* every applicable policy of the three commands.                          *)
(***************************************************************************)
\* The assertion the last evaluation of the run was made for.
LastAsserted == test.assertions[test.calls[Len(test.calls)].of]

C30_InsertAsUpdate ==
  (/\ test.runner = "simulator"
   /\ test.calls # <<>>
   /\ call.op = "canInsertOrUpdate") =>
    /\ LastAsserted.command \in {"INSERT", "UPDATE"}
    /\ call.allowed = (ApplicableToWrite(call.table) = {} \/ \E k \in DOMAIN trace : trace[k].result)
    /\ \A p \in ApplicableToWrite(call.table) :
         (p.command \in {"INSERT", "UPDATE"} /\ FoundTrue(p, call.row)) => call.allowed
    /\ ~call.allowed => ApplicableToWrite(call.table) \subseteq Consulted

\* An INSERT assertion has been admitted by an UPDATE policy, the INSERT policy that applies
\* having been found false.
C30_Witness ==
  /\ test.runner = "simulator"
  /\ test.calls # <<>>
  /\ call.op = "canInsertOrUpdate"
  /\ LastAsserted.command = "INSERT"
  /\ call.allowed
  /\ \E p \in ApplicableToWrite(call.table) : p.command = "UPDATE" /\ FoundTrue(p, call.row)
  /\ \E p \in ApplicableToWrite(call.table) : p.command = "INSERT" /\ p \in Consulted
  /\ \A p \in ApplicableToWrite(call.table) : p.command = "INSERT" => ~FoundTrue(p, call.row)

(***************************************************************************)
(* C27 as stated: the verdict runTests reports for an assertion built by   *)
(* canInsert(table, row) or canUpdate(table, row) is decided on that row:  *)
(* when testPolicies executes the assertion, the row it gives to           *)
(* canInsertOrUpdate is the row the test function gave.                    *)
(***************************************************************************)
\* The test functions whose assertion defineTests has collected, in order.
Collected ==
  SelectSeq(SubSeq(test.tests, 1, test.defined),
            LAMBDA fn : \E k \in DOMAIN test.contexts : test.contexts[k].user = fn.context)

C27_RowOfAssertion ==
  (test.runner = "simulator" /\ test.tests # <<>>) =>
    \A k \in DOMAIN test.calls :
      test.calls[k].op = "canInsertOrUpdate" =>
        test.calls[k].row = Collected[test.calls[k].of].row

(***************************************************************************)
(* C28 as stated: runTests does not report passed when a test function     *)
(* names a context user that is not among the contexts: every test         *)
(* function counts in total and such a one has a failure entry.            *)
(***************************************************************************)
C28_MissingContextFails ==
  (test.runner = "simulator" /\ test.tests # <<>> /\ test.pc = "done") =>
    /\ test.result.total = Len(test.tests)
    /\ Len(Collected) < Len(test.tests) =>
         /\ ~test.result.passed
         /\ test.result.failures # <<>>

\* The operations that change the schema.
SchemaChanging(k) == deploy.ops[k].op \in {"enableRLS", "dropPolicyIfExists", "createPolicy"}

\* The k-th call names the i-th policy of the configuration.
NamesPolicy(k, i) ==
  /\ deploy.ops[k].policy = i
  /\ deploy.ops[k].name = deploy.policies[i].name
  /\ deploy.ops[k].table = deploy.policies[i].table

(***************************************************************************)
(* C21 as stated: a dry run never calls enableRLS, dropPolicyIfExists or   *)
(* createPolicy, whatever the configuration; a deploy without --dry-run    *)
(* that the database refuses nothing to has, when it ends, called          *)
(* enableRLS for every table of the configuration and dropPolicyIfExists   *)
(* and createPolicy for every policy of it.                                *)
(***************************************************************************)
C21_DryRunChangesNothing ==
  /\ deploy.dryRun => \A k \in DOMAIN deploy.ops : ~SchemaChanging(k)
  /\ (~deploy.dryRun /\ deploy.pc = "done" /\ \A k \in DOMAIN deploy.ops : deploy.ops[k].ok) =>
       \A i \in DOMAIN deploy.policies :
         /\ \E k \in DOMAIN deploy.ops :
              deploy.ops[k].op = "enableRLS" /\ deploy.ops[k].table = deploy.policies[i].table
         /\ \E k \in DOMAIN deploy.ops : deploy.ops[k].op = "dropPolicyIfExists" /\ NamesPolicy(k, i)
         /\ \E k \in DOMAIN deploy.ops : deploy.ops[k].op = "createPolicy" /\ NamesPolicy(k, i)

(***************************************************************************)
(* C25: in a deploy without --dry-run, enableRLS(table) is accepted before *)
(* any policy operation on that table; createPolicy(policy) comes right    *)
(* after dropPolicyIfExists of the same policy, and an accepted drop is    *)
(* followed by its create; the policies of a table are dropped and created *)
(* in the order of the configuration; after connect, validateConnection,   *)
(* enableRLS, dropPolicyIfExists or createPolicy is refused no enable,     *)
(* drop or create follows, and the command ends with the client ended.     *)
(***************************************************************************)
C25_OperationOrder ==
  LET ops == deploy.ops IN
  /\ \A k \in DOMAIN ops :
       ops[k].op \in {"dropPolicyIfExists", "createPolicy"} =>
         \E j \in 1..(k - 1) :
           ops[j].op = "enableRLS" /\ ops[j].table = ops[k].table /\ ops[j].ok
  /\ \A k \in DOMAIN ops :
       ops[k].op = "createPolicy" =>
         /\ k > 1
         /\ ops[k - 1] = [ops[k] EXCEPT !.op = "dropPolicyIfExists", !.ok = TRUE]
  /\ \A k \in DOMAIN ops :
       (ops[k].op = "dropPolicyIfExists" /\ ops[k].ok /\ k < Len(ops)) =>
         ops[k + 1].op = "createPolicy" /\ ops[k + 1].policy = ops[k].policy
  /\ \A j, k \in DOMAIN ops :
       (j < k /\ SchemaChanging(k) /\ ops[j].op = ops[k].op /\ ops[j].table = ops[k].table) =>
         ops[j].policy < ops[k].policy
  /\ \A k \in DOMAIN ops :
       SchemaChanging(k) /\ ops[k].op # "enableRLS" => NamesPolicy(k, ops[k].policy)
  /\ \A j, k \in DOMAIN ops :
       (j < k /\ ~ops[j].ok /\ ops[j].op # "tableExists") => ~SchemaChanging(k)
  /\ deploy.failed => deploy.pc \in {"close", "done"}
  /\ deploy.pc = "done" =>
       /\ deploy.client = "null"
       /\ ops # <<>>
       /\ ops[Len(ops)].op = "end"

\* Two policies of a table were created, the next drop was refused, and the command has ended
\* with the client ended.
C25_Witness ==
  /\ ~deploy.dryRun
  /\ deploy.pc = "done"
  /\ deploy.failed
  /\ deploy.client = "null"
  /\ \E j, k \in DOMAIN deploy.ops :
       /\ j < k
       /\ deploy.ops[j].op = "createPolicy" /\ deploy.ops[k].op = "createPolicy"
       /\ deploy.ops[j].table = deploy.ops[k].table
  /\ \E k \in DOMAIN deploy.ops : deploy.ops[k].op = "dropPolicyIfExists" /\ ~deploy.ops[k].ok

====
